---- MODULE Spec2Model ----
(***************************************************************************)
(* Model of the request executor of alliantapi.client.Client: login(),     *)
(* logout(), _send_request() with its retry loop, and the two action       *)
(* methods that validate their arguments before they call it, as one state *)
(* machine.  Each calling thread has a program counter that follows the    *)
(* statements of the methods; the client's attributes are shared by all    *)
(* threads.  The Alliant server is the environment: it answers each HTTP   *)
(* request with any status code and any body shape, and keeps the set of   *)
(* sessions that logins have opened and logouts have not closed.           *)
(***************************************************************************)
EXTENDS Integers, Sequences, FiniteSets, TLC

\* ------------------------------------------------------------------ bounds
MaxRetries == 3        \* number_of_retries ranges over 0..MaxRetries
MaxThreads == 2        \* threads that may share the client
MaxTokens  == 2        \* tokens the server issues before it refuses logins
MaxCalls   == 1        \* operations on the client that a thread performs
MaxUrlLen  == 5        \* characters of a base_url
MaxValueLen == 2       \* characters of a filter value

\* ------------------------------------------------------- program constants
None == 0              \* the value of token before login and after logout
SettleDelay == 1       \* time.sleep(1) after the re-login
DefaultDelay == 3
DefaultBackoff == 2
DefaultErrorCodes == <<500, 403, 409>>

\* --------------------------------------------------- inputs (environment)
Threads == 1..MaxThreads
Statuses == {200, 409, 500}
Bodies == {"envelope", "has_errors", "not_json"}
\* shapes of the body of a login response:
\*   token_expires  {"result": {"token": .., "expires": ..}}
\*   token_only     {"result": {"token": ..}}
\*   no_token       {"result": {}}
\*   no_result      {"errors": [..], "hasErrors": true}
\*   result_null    {"result": null, "errors": [..], "hasErrors": true}
\*   not_json       a body that is not JSON (an HTML error page, an empty body)
LoginBodies == {"token_expires", "token_only", "no_token", "no_result",
                "result_null", "not_json"}
LogoutStatuses == {200, 500}
\* the codes a caller takes out of error_codes_to_retry
Removable == {409}
Delays == {DefaultDelay, 2}
Backoffs == {DefaultBackoff, 3}

\* the URLs of the resource collections, below base_url
adjustment_headers_url == "/data/adjustmentHeaders"
contacts_url == "/data/contacts"
contracts_url == "/data/contracts"

\* patch_contract: contract_url = self.contacts_url + '/' + guid
\* req = requests.Request('PUT', contract_url, json=body, params=params)
patch_contract_request(guid, body) ==
  [method |-> "PUT", url |-> contacts_url \o "/" \o guid, params |-> "$default", json |-> body]

\* lookup_contract: requests.Request('GET', self.contracts_url + '/' + guid, params=params)
lookup_contract_request(guid) ==
  [method |-> "GET", url |-> contracts_url \o "/" \o guid, params |-> "default", json |-> ""]

\* delete_contract: requests.Request('DELETE', self.contracts_url + '/' + guid)
delete_contract_request(guid) ==
  [method |-> "DELETE", url |-> contracts_url \o "/" \o guid, params |-> "", json |-> ""]

\* lookup_adjustment: requests.Request('GET', self.adjustment_headers_url + '/' + guid, ...)
lookup_adjustment_request(guid) ==
  [method |-> "GET", url |-> adjustment_headers_url \o "/" \o guid, params |-> "", json |-> ""]

\* requests.Request(method, url, params=..., json=...) built by the callers
Requests == { patch_contract_request("g1", "comment") }

\* the arguments of adjustment_action and contract_action
Resources == {"adjustment", "contract"}
Actions == {"clearRequest", "bogus"}
\* every action that either method allows, and one that none allows
AllActions == {"approve", "clear", "clearRequest", "copy", "insetup", "post", "complete",
               "model", "resolve", "revise", "bogus"}
NoComment == "<None>"
Comments == {NoComment, "comment"}
Guids == {"g1"}

NoRequest == [method |-> "", url |-> "", params |-> "", json |-> ""]
NoPrepped == [method |-> "", url |-> "", params |-> "", json |-> "", session |-> None]
NoResponse == [status |-> 0, body |-> "", n |-> 0]
NoLogin == [body |-> "", token |-> None, expires |-> None]
NoGiven == [fn |-> ""]
NoWorkflow == [response |-> [class |-> "", status |-> 0, body |-> ""], log |-> <<>>,
               message |-> ""]
NoArgs == [resource |-> "", action |-> "", comment |-> NoComment, guid |-> "",
           session |-> <<>>]

VARIABLES
  \* configuration of the client (Client.__init__)
  number_of_retries, retry_delay, retry_backoff,
  base_url, user_id, password, system_layer_key, application_layer,
  error_codes_to_retry,   \* reference of the client's list object
  other_error_codes,      \* reference of the list of a second Client instance
  lists,                  \* the list objects: reference -> sequence of codes
  \* session state of the client
  token, token_expires,
  headers,                \* self.headers['X-AlliantSession'], None = key absent
  session_headers,        \* self.session.headers['X-AlliantSession'], None = absent
  \* the server
  next_token,             \* the next token the login endpoint issues
  active,                 \* the tokens of the sessions that are open on the server
  \* per thread: position and locals
  callers,                \* thread -> the operations on the client it still performs
  pc, stack, op,
  req, prepped, response, retried_count, retry_time,
  login_response, logout_response,
  outcome,                \* how the thread's last call ended
  args,                   \* the arguments of the thread's call of an action method
  received,               \* the last response the server sent the thread
  trace,                  \* what the thread's current call did, in order
  workflow,               \* per thread, the call of a method of AlliantApi that calls
                          \* several methods of the client: its local `response`
                          \* and what it has looked up and sent so far
  \* a function of the package that reads no attribute of the client
  given,                  \* the function and the arguments it is applied to
  value,                  \* <<>> until it has been applied, then <<its result>>
  history                 \* what has happened since the construction:
                          \*   called      the methods that were called
                          \*   login_ok    every login request was answered with
                          \*               a token and its expiry
                          \*   logout_ok   every logout request was answered 200

config == <<number_of_retries, retry_delay, retry_backoff,
            base_url, user_id, password, system_layer_key, application_layer>>
listVars == <<error_codes_to_retry, other_error_codes, lists>>
sessionVars == <<token, token_expires, headers, session_headers>>
evaluation == <<given, value>>
frame == <<req, prepped, response, retried_count, retry_time>>
authLocals == <<login_response, logout_response>>
vars == <<config, evaluation, workflow, listVars, sessionVars, next_token, active, callers, pc, stack, op,
          frame, authLocals, args, outcome, received, trace, history>>

\* ----------------------------------------------------------------- helpers
Min(a, b) == IF a < b THEN a ELSE b

RECURSIVE Pow(_, _)
Pow(b, e) == IF e = 0 THEN 1 ELSE b * Pow(b, e - 1)

InSeq(x, s) == \E i \in 1..Len(s) : s[i] = x

\* list.remove(x): drops the first occurrence of x
RECURSIVE ListRemove(_, _)
ListRemove(s, x) ==
  IF s = <<>> THEN <<>>
  ELSE IF Head(s) = x THEN Tail(s)
  ELSE <<Head(s)>> \o ListRemove(Tail(s), x)

\* a logical request in the shape of a transport request without session header
Logical(r) ==
  [method |-> r.method, url |-> r.url, params |-> r.params, json |-> r.json, session |-> None]

Event(kind, p, r, k) == [ev |-> kind, req |-> p, response |-> r, num |-> k]

Log(t, e) == trace' = [trace EXCEPT ![t] = Append(@, e)]

\* the events of one kind in a trace, in order
RECURSIVE Of(_, _)
Of(tr, kind) ==
  IF tr = <<>> THEN <<>>
  ELSE IF Head(tr).ev = kind THEN <<Head(tr)>> \o Of(Tail(tr), kind)
  ELSE Of(Tail(tr), kind)

Count(tr, kind) == Len(Of(tr, kind))

\* the codes of the client's list
ErrorCodes == lists[error_codes_to_retry]


\* ------------------------------------------------------------ construction
\* The program constructs two clients; the calls below are made on the first.
\* ------------------------------------------------------------------ strings
\* a str is the sequence of its characters
Strings(chars, n) == UNION { [1..k -> chars] : k \in 0..n }

EndsWith(s, suffix) ==
  /\ Len(s) >= Len(suffix)
  /\ SubSeq(s, Len(s) - Len(suffix) + 1, Len(s)) = suffix

\* s.replace(c, by) for a single character c
RECURSIVE Replace(_, _, _)
Replace(s, c, by) ==
  IF Len(s) = 0 THEN <<>>
  ELSE (IF s[1] = c THEN by ELSE <<s[1]>>) \o Replace(Tail(s), c, by)

\* _format_base_url(base_url)
UrlChars == {"h", "/", "a", "p", "i"}
BaseUrls == Strings(UrlChars, MaxUrlLen)

\* if base_url.endswith('/'): base_url = base_url[:-1]
\* if not base_url.endswith('api'): base_url = base_url + '/api'
FormatBaseUrl(url) ==
  LET stripped == IF EndsWith(url, <<"/">>)
                  THEN SubSeq(url, 1, Len(url) - 1)
                  ELSE url
  IN  IF ~EndsWith(stripped, <<"a", "p", "i">>)
      THEN stripped \o <<"/", "a", "p", "i">>
      ELSE stripped

\* self.error_codes_to_retry = [500, 403, 409]: a list display makes a new
\* list object on every evaluation
NewErrorCodes(heap) ==
  LET r == Cardinality(DOMAIN heap) + 1
  IN  [ref |-> r, heap |-> heap @@ (r :> DefaultErrorCodes)]

\* the arguments of Client(base_url, user_id, password, system_layer_key,
\* application_layer) that identify the server and the user
DefaultArguments ==
  [base_url |-> <<"h">>, user_id |-> "u1", password |-> "p1",
   system_layer_key |-> "s1", application_layer |-> "a1"]

ClientArguments ==
  [base_url : {<<"h">>, <<"h", "/">>}, user_id : {"u1", "u2"}, password : {"p1", "p2"},
   system_layer_key : {"s1"}, application_layer : {"a1", "a2"}]

ConstructedFrom(arguments, retries, delays, backoffs, threads, calls) ==
  /\ \E a \in arguments :
        /\ base_url = FormatBaseUrl(a.base_url)
        /\ user_id = a.user_id
        /\ password = a.password
        /\ system_layer_key = a.system_layer_key
        /\ application_layer = a.application_layer
  /\ number_of_retries \in retries
  /\ retry_delay \in delays
  /\ retry_backoff \in backoffs
  /\ LET first == NewErrorCodes(<<>>)
         second == NewErrorCodes(first.heap)
     IN  /\ error_codes_to_retry = first.ref
         /\ other_error_codes = second.ref
         /\ lists = second.heap
  /\ token = None
  /\ token_expires = None
  /\ headers = None
  /\ session_headers = None
  /\ next_token = 1
  /\ active = {}
  /\ callers = [t \in Threads |-> IF t \in threads THEN calls ELSE 0]
  /\ pc = [t \in Threads |-> "idle"]
  /\ stack = [t \in Threads |-> <<>>]
  /\ op = [t \in Threads |-> "none"]
  /\ req = [t \in Threads |-> NoRequest]
  /\ prepped = [t \in Threads |-> NoPrepped]
  /\ response = [t \in Threads |-> NoResponse]
  /\ retried_count = [t \in Threads |-> 0]
  /\ retry_time = [t \in Threads |-> 0]
  /\ login_response = [t \in Threads |-> NoLogin]
  /\ logout_response = [t \in Threads |-> [status |-> 0, body |-> ""]]
  /\ outcome = [t \in Threads |-> [kind |-> "none", response |-> NoResponse, exc |-> ""]]
  /\ trace = [t \in Threads |-> <<>>]
  /\ received = [t \in Threads |-> NoResponse]
  /\ args = [t \in Threads |-> NoArgs]
  /\ history = [called |-> {}, login_ok |-> TRUE, logout_ok |-> TRUE]
  /\ workflow = [t \in Threads |-> NoWorkflow]

\* the program constructs a client and applies no function of the package
Constructed(retries, delays, backoffs, threads, calls) ==
  ConstructedFrom({DefaultArguments}, retries, delays, backoffs, threads, calls)

InitWith(retries, delays, backoffs, threads, calls) ==
  /\ Constructed(retries, delays, backoffs, threads, calls)
  /\ given = NoGiven
  /\ value = <<>>

\* aa.error_codes_to_retry.remove(code), made by a caller between calls
RemoveCode(t, code) ==
  /\ \A u \in Threads : pc[u] = "idle"
  /\ callers[t] > 0
  /\ callers' = [callers EXCEPT ![t] = @ - 1]
  /\ InSeq(code, ErrorCodes)
  /\ lists' = [lists EXCEPT ![error_codes_to_retry] = ListRemove(@, code)]
  /\ UNCHANGED <<config, evaluation, workflow, error_codes_to_retry, other_error_codes, sessionVars,
                 next_token, active, history, args, received, pc, stack, op, frame, authLocals, outcome, trace>>

\* --------------------------------------------------- call and return
Goto(t, label) == pc' = [pc EXCEPT ![t] = label]

Begin(t, name, label) ==
  /\ callers[t] > 0
  /\ callers' = [callers EXCEPT ![t] = @ - 1]
  /\ history' = [history EXCEPT !.called = @ \cup {name}]
  /\ pc[t] = "idle"
  /\ op' = [op EXCEPT ![t] = name]
  /\ Goto(t, label)
  /\ stack' = [stack EXCEPT ![t] = <<>>]
  /\ outcome' = [outcome EXCEPT ![t] = [kind |-> "none", response |-> NoResponse, exc |-> ""]]

\* call a method of the client from label-sequence position `back`
Call(t, label, back) ==
  /\ Goto(t, label)
  /\ stack' = [stack EXCEPT ![t] = <<back>> \o @]
  /\ UNCHANGED <<op, outcome>>

\* return r from the method the thread is in
Return(t, r) ==
  IF stack[t] = <<>>
  THEN /\ Goto(t, "idle")
       /\ outcome' = [outcome EXCEPT ![t] = [kind |-> "returned", response |-> r, exc |-> ""]]
       /\ UNCHANGED <<stack, op>>
  ELSE /\ Goto(t, Head(stack[t]))
       /\ stack' = [stack EXCEPT ![t] = Tail(@)]
       /\ UNCHANGED <<op, outcome>>

\* an exception no frame catches ends the thread's call
Raise(t, e) ==
  /\ Goto(t, "idle")
  /\ stack' = [stack EXCEPT ![t] = <<>>]
  /\ outcome' = [outcome EXCEPT ![t] = [kind |-> "raised", response |-> NoResponse, exc |-> e]]
  /\ UNCHANGED op

Step(t) == UNCHANGED <<stack, op, outcome>>


\* ------------------------------------------------------------------ logout
LogoutRequest(h) ==
  [method |-> "POST", url |-> "/security/logout", params |-> "", json |-> "", session |-> h]

NoLogout == [status |-> 0, body |-> ""]

\* the server closes the session named by the X-AlliantSession header of a
\* logout request when it answers 200, and leaves it open when it answers 500
CloseSession(open, h, st) == IF st = 200 THEN open \ {h} ELSE open

\* requests.post(logout_url, headers=self.headers)
LogoutPost(t, st, b) ==
  /\ pc[t] = "logout_post"
  /\ logout_response' = [logout_response EXCEPT ![t] = [status |-> st, body |-> b]]
  /\ active' = CloseSession(active, headers, st)
  /\ history' = [history EXCEPT !.logout_ok = @ /\ st = 200]
  /\ Log(t, Event("logout", LogoutRequest(headers), NoResponse, 0))
  /\ Goto(t, "logout_clear")
  /\ Step(t)
  /\ UNCHANGED <<config, evaluation, workflow, listVars, sessionVars, next_token, callers, args, received, frame, login_response>>

\* mutant: logout() forgets to clear the token
LogoutClear_KeepsToken(t) ==
  /\ pc[t] = "logout_clear"
  /\ Return(t, [status |-> logout_response[t].status, body |-> logout_response[t].body, n |-> 0])
  /\ logout_response' = [logout_response EXCEPT ![t] = NoLogout]
  /\ UNCHANGED <<config, evaluation, workflow, listVars, sessionVars, next_token, active,
                 callers, history, args, received, frame, login_response, trace>>

\* mutant: logout() clears the token only when the server answered 200
LogoutClear_OnSuccess(t) ==
  /\ pc[t] = "logout_clear"
  /\ token' = IF logout_response[t].status = 200 THEN None ELSE token
  /\ Return(t, [status |-> logout_response[t].status, body |-> logout_response[t].body, n |-> 0])
  /\ logout_response' = [logout_response EXCEPT ![t] = NoLogout]
  /\ UNCHANGED <<config, evaluation, workflow, listVars, token_expires, headers, session_headers, next_token, active,
                 callers, history, args, received, frame, login_response, trace>>

\* self.token = None; return AlliantApiResponse(response)
LogoutClear(t) ==
  /\ pc[t] = "logout_clear"
  /\ token' = None
  /\ Return(t, [status |-> logout_response[t].status, body |-> logout_response[t].body, n |-> 0])
  /\ logout_response' = [logout_response EXCEPT ![t] = NoLogout]
  /\ UNCHANGED <<config, evaluation, workflow, listVars, token_expires, headers, session_headers, next_token, active,
                 callers, history, args, received, frame, login_response, trace>>

CallLogout(t) ==
  /\ Begin(t, "logout", "logout_post")
  /\ trace' = [trace EXCEPT ![t] = <<>>]
  /\ received' = [received EXCEPT ![t] = NoResponse]
  /\ args' = [args EXCEPT ![t] = NoArgs]
  /\ UNCHANGED <<config, evaluation, workflow, listVars, sessionVars, next_token, active, frame, authLocals>>

\* ------------------------------------------------------------------- login
\* params={'userId': self.user_id, 'password': self.password,
\*         'systemLayer': self.system_layer_key,
\*         'applicationLayer': self.application_layer}
LoginParams(user, pass, layer, application) ==
  "userId=" \o user \o "&password=" \o pass \o "&systemLayer=" \o layer
    \o "&applicationLayer=" \o application

\* mutant: the login of the client does not name the application layer
LoginRequest_NoApplicationLayer ==
  [method |-> "POST", url |-> "/security/login",
   params |-> "userId=" \o user_id \o "&password=" \o password
                \o "&systemLayer=" \o system_layer_key,
   json |-> "", session |-> None]

LoginRequest ==
  [method |-> "POST", url |-> "/security/login",
   params |-> LoginParams(user_id, password, system_layer_key, application_layer),
   json |-> "", session |-> None]

HasToken(body) == body \in {"token_expires", "token_only"}

\* the status line the server sends with each shape of login body
LoginStatus(body) == IF HasToken(body) THEN 200 ELSE 500

CallLogin(t) ==
  /\ Begin(t, "login", "login_check")
  /\ trace' = [trace EXCEPT ![t] = <<Event("call", NoPrepped, NoResponse, token)>>]
  /\ received' = [received EXCEPT ![t] = NoResponse]
  /\ args' = [args EXCEPT ![t] = NoArgs]
  /\ UNCHANGED <<config, evaluation, workflow, listVars, sessionVars, next_token, active, frame, authLocals>>

\* mutant: login() does not log out first
LoginCheck_NoLogout(t) ==
  /\ pc[t] = "login_check"
  /\ Goto(t, "login_post") /\ Step(t)
  /\ UNCHANGED <<config, evaluation, workflow, listVars, sessionVars, next_token, active, callers, history, args, received, frame, authLocals, trace>>

\* if self.token: self.logout()
LoginCheck(t) ==
  /\ pc[t] = "login_check"
  /\ IF token # None
     THEN Call(t, "logout_post", "login_post")
     ELSE Goto(t, "login_post") /\ Step(t)
  /\ UNCHANGED <<config, evaluation, workflow, listVars, sessionVars, next_token, active, callers, history, args, received, frame, authLocals, trace>>

\* the expiry time the server states for the session of a token
ExpiresOf(tok) == 100 + tok

\* response = requests.post(login_url, params={...}); a login answered with a
\* token opens a session on the server
LoginPost(t, body) ==
  /\ pc[t] = "login_post"
  /\ HasToken(body) => next_token <= MaxTokens
  /\ login_response' = [login_response EXCEPT ![t] =
        [body |-> body,
         token |-> IF HasToken(body) THEN next_token ELSE None,
         expires |-> IF body = "token_expires" THEN ExpiresOf(next_token) ELSE None]]
  /\ next_token' = IF HasToken(body) THEN next_token + 1 ELSE next_token
  /\ active' = IF HasToken(body) THEN active \cup {next_token} ELSE active
  /\ history' = [history EXCEPT !.login_ok = @ /\ body = "token_expires"]
  /\ Log(t, Event("login", LoginRequest, NoResponse, IF HasToken(body) THEN next_token ELSE None))
  /\ Goto(t, "login_token")
  /\ Step(t)
  /\ UNCHANGED <<config, evaluation, workflow, listVars, sessionVars, callers, args, received, frame, logout_response>>

LoginResult(t) ==
  [status |-> LoginStatus(login_response[t].body), body |-> login_response[t].body, n |-> 0]

\* the exception that  response.json()['result']['token']  raises, "" for none
TokenLookup(body) ==
  CASE body = "not_json"    -> "JSONDecodeError"
    [] body = "result_null" -> "TypeError"
    [] body = "no_result"   -> "KeyError"
    [] body = "no_token"    -> "KeyError"
    [] OTHER                -> ""

\* the handlers of login()'s try statement
Caught(e) == e = "KeyError"

\* self.token = response.json()['result']['token']
LoginSetToken(t) ==
  /\ pc[t] = "login_token"
  /\ LET e == TokenLookup(login_response[t].body) IN
     IF e = ""
     THEN /\ token' = login_response[t].token
          /\ Goto(t, "login_expires")
          /\ Step(t)
          /\ UNCHANGED login_response
     ELSE /\ UNCHANGED token
          /\ login_response' = [login_response EXCEPT ![t] = NoLogin]
          /\ IF Caught(e) THEN Return(t, LoginResult(t)) ELSE Raise(t, e)
  /\ UNCHANGED <<config, evaluation, workflow, listVars, token_expires, headers, session_headers, next_token, active,
                 callers, history, args, received, frame, logout_response, trace>>

\* self.token_expires = response.json()['result']['expires']
LoginSetExpires(t) ==
  /\ pc[t] = "login_expires"
  /\ IF login_response[t].body = "token_expires"
     THEN /\ token_expires' = login_response[t].expires
          /\ Goto(t, "login_header")
          /\ Step(t)
          /\ UNCHANGED login_response
     ELSE /\ UNCHANGED token_expires
          /\ login_response' = [login_response EXCEPT ![t] = NoLogin]
          /\ Return(t, LoginResult(t))
  /\ UNCHANGED <<config, evaluation, workflow, listVars, token, headers, session_headers, next_token, active,
                 callers, history, args, received, frame, logout_response, trace>>

\* self.headers['X-AlliantSession'] = self.token
LoginSetHeader(t) ==
  /\ pc[t] = "login_header"
  /\ headers' = token
  /\ Goto(t, "login_session")
  /\ Step(t)
  /\ UNCHANGED <<config, evaluation, workflow, listVars, token, token_expires, session_headers, next_token, active,
                 callers, history, args, received, frame, authLocals, trace>>

\* mutant: the headers of the transport session are not updated
LoginUpdateSession_KeepsSession(t) ==
  /\ pc[t] = "login_session"
  /\ login_response' = [login_response EXCEPT ![t] = NoLogin]
  /\ Return(t, LoginResult(t))
  /\ UNCHANGED <<config, evaluation, workflow, listVars, sessionVars, next_token, active,
                 callers, history, args, received, frame, logout_response, trace>>

\* self.session.headers.update(self.headers); return AlliantApiResponse(response)
LoginUpdateSession(t) ==
  /\ pc[t] = "login_session"
  /\ session_headers' = headers
  /\ login_response' = [login_response EXCEPT ![t] = NoLogin]
  /\ Return(t, LoginResult(t))
  /\ UNCHANGED <<config, evaluation, workflow, listVars, token, token_expires, headers, next_token, active,
                 callers, history, args, received, frame, logout_response, trace>>


\* ----------------------------------------------------------- _send_request
\* mutant: the prepared request loses the JSON body
prepare_request_NoBody(r, sh) ==
  [method |-> r.method, url |-> r.url, params |-> r.params, json |-> "", session |-> sh]

\* self.session.prepare_request(req): the request's own fields, merged with
\* the headers the session holds at this moment
prepare_request(r, sh) ==
  [method |-> r.method, url |-> r.url, params |-> r.params, json |-> r.json, session |-> sh]

\* mutant: the guard of the retry loop admits number_of_retries = 0
RetriesEnabled_NonNegative(n) == n >= 0

\* if self.number_of_retries > 0
RetriesEnabled(n) == n > 0

\* mutant: a body that reports errors starts a retry too
ShouldRetry_OnBody(resp, codes) == InSeq(resp.status, codes) \/ resp.body # "envelope"

\* mutant: the loop tests the default codes, not the list of the instance
ShouldRetry_DefaultCodes(resp, codes) == InSeq(resp.status, DefaultErrorCodes)

\* response.status_code in self.error_codes_to_retry
ShouldRetry(resp, codes) == InSeq(resp.status, codes)

\* if retried_count == self.number_of_retries: break
Exhausted(count, n) == count = n

\* mutant: the backoff is added, not multiplied
NextRetryTime_Additive(rt, b) == rt + b

\* retry_time = retry_time * self.retry_backoff
NextRetryTime(rt, b) == rt * b

\* the duration of the sleep that follows the re-login
SettleSleep(rt) == SettleDelay

\* return response
ReturnedResponse(t) == response[t]

NoFrame(t) ==
  /\ req' = [req EXCEPT ![t] = NoRequest]
  /\ prepped' = [prepped EXCEPT ![t] = NoPrepped]
  /\ response' = [response EXCEPT ![t] = NoResponse]
  /\ retried_count' = [retried_count EXCEPT ![t] = 0]
  /\ retry_time' = [retry_time EXCEPT ![t] = 0]

\* 1 when the session that a header names is open on the server, 0 otherwise
Open(h) == IF h \in active THEN 1 ELSE 0

\* retried_count = 0; retry_time = self.retry_delay; prepped = prepare_request(req)
Enter(t, r) ==
  /\ req' = [req EXCEPT ![t] = r]
  /\ retried_count' = [retried_count EXCEPT ![t] = 0]
  /\ retry_time' = [retry_time EXCEPT ![t] = retry_delay]
  /\ prepped' = [prepped EXCEPT ![t] = prepare_request(r, session_headers)]
  /\ response' = [response EXCEPT ![t] = NoResponse]
  /\ trace' = [trace EXCEPT ![t] = <<Event("prepare", Logical(r), NoResponse, Open(session_headers))>>]
  /\ received' = [received EXCEPT ![t] = NoResponse]

CallSendRequest(t, r) ==
  /\ Begin(t, "_send_request", "send")
  /\ Enter(t, r)
  /\ args' = [args EXCEPT ![t] = NoArgs]
  /\ UNCHANGED <<config, evaluation, workflow, listVars, sessionVars, next_token, active, authLocals>>

\* response = self.session.send(prepped), the server answering st with body b
Transmit(t, st, b, label) ==
  LET r == [status |-> st, body |-> b, n |-> Count(trace[t], "send") + 1] IN
  /\ response' = [response EXCEPT ![t] = r]
  /\ received' = [received EXCEPT ![t] = r]
  /\ Log(t, Event("send", prepped[t], NoResponse, IF InSeq(st, ErrorCodes) THEN 1 ELSE 0))
  /\ Goto(t, label)
  /\ Step(t)
  /\ UNCHANGED <<config, evaluation, workflow, listVars, sessionVars, next_token, active, callers, history, args, req, prepped,
                 retried_count, retry_time, authLocals>>

Send(t, st, b) ==
  /\ pc[t] = "send"
  /\ Transmit(t, st, b, "if_retries")

IfRetries(t) ==
  /\ pc[t] = "if_retries"
  /\ Goto(t, IF RetriesEnabled(number_of_retries) THEN "while" ELSE "return")
  /\ Step(t)
  /\ UNCHANGED <<config, evaluation, workflow, listVars, sessionVars, next_token, active, callers, history, args, received, frame, authLocals, trace>>

\* mutant: a client without a token re-authenticates whatever the status was
While_WhenLoggedOut(t) ==
  /\ pc[t] = "while"
  /\ IF ShouldRetry(response[t], ErrorCodes) \/ token = None
     THEN /\ retried_count' = [retried_count EXCEPT ![t] = @ + 1]
          /\ Log(t, Event("retry", NoPrepped, NoResponse, retried_count[t] + 1))
          /\ Goto(t, "sleep")
     ELSE /\ Goto(t, "return")
          /\ UNCHANGED <<retried_count, trace>>
  /\ Step(t)
  /\ UNCHANGED <<config, evaluation, workflow, listVars, sessionVars, next_token, active, callers, history, args, received, req, prepped,
                 response, retry_time, authLocals>>

\* while response.status_code in self.error_codes_to_retry:
\*     retried_count += 1; logging.warning("Retrying API Call - Attempt ...")
While(t) ==
  /\ pc[t] = "while"
  /\ IF ShouldRetry(response[t], ErrorCodes)
     THEN /\ retried_count' = [retried_count EXCEPT ![t] = @ + 1]
          /\ Log(t, Event("retry", NoPrepped, NoResponse, retried_count[t] + 1))
          /\ Goto(t, "sleep")
     ELSE /\ Goto(t, "return")
          /\ UNCHANGED <<retried_count, trace>>
  /\ Step(t)
  /\ UNCHANGED <<config, evaluation, workflow, listVars, sessionVars, next_token, active, callers, history, args, received, req, prepped,
                 response, retry_time, authLocals>>

\* prepped and response are not read again before lines 224 and 225 assign
\* them anew: from here on the frame holds no transport request and no response
Forget(t) ==
  /\ prepped' = [prepped EXCEPT ![t] = NoPrepped]
  /\ response' = [response EXCEPT ![t] = NoResponse]
  /\ received' = [received EXCEPT ![t] = NoResponse]

\* mutant: the retry attempt logs in without the logout before it
Sleep_SkipsLogout(t) ==
  /\ pc[t] = "sleep"
  /\ Log(t, Event("sleep", NoPrepped, NoResponse, retry_time[t]))
  /\ Forget(t)
  /\ Call(t, "login_check", "settle")
  /\ UNCHANGED <<config, evaluation, workflow, listVars, sessionVars, next_token, active, callers, history, args, req,
                 retried_count, retry_time, authLocals>>

\* time.sleep(retry_time); self.logout()
Sleep(t) ==
  /\ pc[t] = "sleep"
  /\ Log(t, Event("sleep", NoPrepped, NoResponse, retry_time[t]))
  /\ Forget(t)
  /\ Call(t, "logout_post", "relogin")
  /\ UNCHANGED <<config, evaluation, workflow, listVars, sessionVars, next_token, active, callers, history, args, req,
                 retried_count, retry_time, authLocals>>

\* self.login()
Relogin(t) ==
  /\ pc[t] = "relogin"
  /\ Call(t, "login_check", "settle")
  /\ UNCHANGED <<config, evaluation, workflow, listVars, sessionVars, next_token, active, callers, history, args, received, frame, authLocals, trace>>

\* time.sleep(1)
Settle(t) ==
  /\ pc[t] = "settle"
  /\ Log(t, Event("settle", NoPrepped, NoResponse, SettleSleep(retry_time[t])))
  /\ Goto(t, "prepare")
  /\ Step(t)
  /\ UNCHANGED <<config, evaluation, workflow, listVars, sessionVars, next_token, active, callers, history, args, received, frame, authLocals>>

\* prepped = self.session.prepare_request(req)
Prepare(t) ==
  /\ pc[t] = "prepare"
  /\ prepped' = [prepped EXCEPT ![t] = prepare_request(req[t], session_headers)]
  /\ Log(t, Event("prepare", Logical(req[t]), NoResponse, Open(session_headers)))
  /\ Goto(t, "resend")
  /\ Step(t)
  /\ UNCHANGED <<config, evaluation, workflow, listVars, sessionVars, next_token, active, callers, history, args, received, req, response,
                 retried_count, retry_time, authLocals>>

\* mutant: the response of the re-send is not assigned
Resend_DropsResponse(t, st, b) ==
  /\ pc[t] = "resend"
  /\ received' = [received EXCEPT ![t] =
        [status |-> st, body |-> b, n |-> Count(trace[t], "send") + 1]]
  /\ Log(t, Event("send", prepped[t], NoResponse, IF InSeq(st, ErrorCodes) THEN 1 ELSE 0))
  /\ Goto(t, "exhausted")
  /\ Step(t)
  /\ UNCHANGED <<config, evaluation, workflow, listVars, sessionVars, next_token, active, callers, history, args, frame, authLocals>>

\* response = self.session.send(prepped)
Resend(t, st, b) ==
  /\ pc[t] = "resend"
  /\ Transmit(t, st, b, "exhausted")

\* if retried_count == self.number_of_retries: break
\* retry_time = retry_time * self.retry_backoff
CheckExhausted(t) ==
  /\ pc[t] = "exhausted"
  /\ IF Exhausted(retried_count[t], number_of_retries)
     THEN /\ Goto(t, "return")
          /\ UNCHANGED retry_time
     ELSE /\ Goto(t, "while")
          /\ retry_time' = [retry_time EXCEPT ![t] = NextRetryTime(@, retry_backoff)]
  /\ Step(t)
  /\ UNCHANGED <<config, evaluation, workflow, listVars, sessionVars, next_token, active, callers, history, args, received, req, prepped,
                 response, retried_count, authLocals, trace>>

\* the frame of _send_request is gone; the caller holds the value it returned
Result(t) ==
  /\ req' = [req EXCEPT ![t] = NoRequest]
  /\ prepped' = [prepped EXCEPT ![t] = NoPrepped]
  /\ response' = [response EXCEPT ![t] = ReturnedResponse(t)]
  /\ retried_count' = [retried_count EXCEPT ![t] = 0]
  /\ retry_time' = [retry_time EXCEPT ![t] = 0]

ReturnResponse(t) ==
  /\ pc[t] = "return"
  /\ Return(t, ReturnedResponse(t))
  /\ IF stack[t] = <<>> THEN NoFrame(t) ELSE Result(t)
  /\ UNCHANGED <<config, evaluation, workflow, listVars, sessionVars, next_token, active, callers, history, args, received, authLocals, trace>>

\* ------------------------------------- adjustment_action, contract_action
ActionMethod(resource) ==
  IF resource = "adjustment" THEN "adjustment_action" ELSE "contract_action"

\* mutant: one allow-list for both resources
available_actions_Shared(resource) ==
  <<"approve", "clear", "clearRequest", "copy", "insetup", "post", "complete",
    "model", "resolve", "revise">>

available_actions(resource) ==
  IF resource = "adjustment"
  THEN <<"approve", "clear", "clearRequest", "copy", "insetup", "post", "complete">>
  ELSE <<"approve", "complete", "copy", "insetup", "model", "resolve", "revise">>

\* mutant: only approve requires a comment, for both resources
actions_requiring_comment_ApproveOnly(resource) == <<"approve">>

actions_requiring_comment(resource) ==
  IF resource = "adjustment" THEN <<"approve", "clearRequest">> ELSE <<"approve">>

\* self.adjustment_headers_url, self.contracts_url
ResourceUrl(resource) ==
  IF resource = "adjustment" THEN adjustment_headers_url ELSE contracts_url

\* the exception the two checks at the head of the method raise, "" for none
PreFlight(resource, action, comment) ==
  IF ~InSeq(action, available_actions(resource)) THEN "ActionNotImplemented"
  ELSE IF InSeq(action, actions_requiring_comment(resource)) /\ comment = NoComment
       THEN "CommentRequired"
  ELSE ""

\* mutant: the comment is sent whenever the caller gave one
ActionRequest_AnyComment(resource, action, comment, guid) ==
  [method |-> "PUT",
   url |-> ResourceUrl(resource) \o "/" \o action \o "/" \o guid,
   params |-> "",
   json |-> IF comment # NoComment THEN comment ELSE ""]

\* action_url = url + f'/{action}/{guid}'; req = requests.Request('PUT', action_url, ...)
ActionRequest(resource, action, comment, guid) ==
  [method |-> "PUT",
   url |-> ResourceUrl(resource) \o "/" \o action \o "/" \o guid,
   params |-> "",
   json |-> IF InSeq(action, actions_requiring_comment(resource)) THEN comment ELSE ""]

\* adjustment_action(guid, action, comment), contract_action(guid, action, comment)
CallAction(t, resource, guid, action, comment) ==
  /\ Begin(t, ActionMethod(resource), "action_check")
  /\ args' = [args EXCEPT ![t] =
        [resource |-> resource, action |-> action, comment |-> comment, guid |-> guid,
         session |-> <<token, token_expires, headers, session_headers, active>>]]
  /\ trace' = [trace EXCEPT ![t] = <<>>]
  /\ received' = [received EXCEPT ![t] = NoResponse]
  /\ UNCHANGED <<config, evaluation, workflow, listVars, sessionVars, next_token, active, frame, authLocals>>

\* if action not in available_actions: raise ActionNotImplemented(...)
\* if action in actions_requiring_comment and comment is None: raise CommentRequired(...)
\* req = requests.Request('PUT', action_url, ...)
ActionCheck(t) ==
  /\ pc[t] = "action_check"
  /\ LET a == args[t]
         e == PreFlight(a.resource, a.action, a.comment)
     IN  IF e # ""
         THEN /\ Raise(t, e)
              /\ UNCHANGED <<req, args>>
         ELSE /\ Goto(t, "action_send")
              /\ Step(t)
              /\ req' = [req EXCEPT ![t] = ActionRequest(a.resource, a.action, a.comment, a.guid)]
              /\ args' = [args EXCEPT ![t].session = <<>>]
  /\ UNCHANGED <<config, evaluation, workflow, listVars, sessionVars, next_token, active, callers, history,
                 received, prepped, response, retried_count, retry_time, authLocals, trace>>

\* response = self._send_request(req)
ActionSend(t) ==
  /\ pc[t] = "action_send"
  /\ Call(t, "send", "action_return")
  /\ Enter(t, req[t])
  /\ UNCHANGED <<config, evaluation, workflow, listVars, sessionVars, next_token, active, callers, history,
                 args, authLocals>>

\* return AlliantApiResponse(response)
ActionReturn(t) ==
  /\ pc[t] = "action_return"
  /\ Return(t, response[t])
  /\ response' = [response EXCEPT ![t] = IF stack[t] = <<>> THEN NoResponse ELSE @]
  /\ UNCHANGED <<config, evaluation, workflow, listVars, sessionVars, next_token, active, callers, history,
                 args, received, req, prepped, retried_count, retry_time, authLocals, trace>>

\* ------------------------------------- with AlliantApi(...) as aa: <body>
\* what the body of the with-block does: nothing, raise an exception, or log
\* out by itself
WithBodies == {"pass", "raise", "logout"}

\* with AlliantApi(...) as aa:
CallWith(t) ==
  /\ Begin(t, "with", "with_enter")
  /\ trace' = [trace EXCEPT ![t] = <<Event("call", NoPrepped, NoResponse, token)>>]
  /\ received' = [received EXCEPT ![t] = NoResponse]
  /\ args' = [args EXCEPT ![t] = NoArgs]
  /\ UNCHANGED <<config, evaluation, workflow, listVars, sessionVars, next_token, active, frame, authLocals>>

\* __enter__: super().login(); return self
WithEnter(t) ==
  /\ pc[t] = "with_enter"
  /\ Call(t, "login_check", "with_body")
  /\ UNCHANGED <<config, evaluation, workflow, listVars, sessionVars, next_token, active, callers, history,
                 args, received, frame, authLocals, trace>>

\* mutant: an exception of the body leaves the block without __exit__
WithBody_NoExitOnRaise(t, body) ==
  /\ pc[t] = "with_body"
  /\ Log(t, Event("body", NoPrepped, NoResponse, IF body = "raise" THEN 1 ELSE 0))
  /\ CASE body = "pass"   -> Goto(t, "with_exit") /\ Step(t)
       [] body = "raise"  -> Raise(t, "BodyError")
       [] body = "logout" -> Call(t, "logout_post", "with_exit")
  /\ UNCHANGED <<config, evaluation, workflow, listVars, sessionVars, next_token, active, callers, history,
                 args, received, frame, authLocals>>

\* the body of the block; an exception it raises is pending while __exit__ runs
WithBody(t, body) ==
  /\ pc[t] = "with_body"
  /\ Log(t, Event("body", NoPrepped, NoResponse, IF body = "raise" THEN 1 ELSE 0))
  /\ CASE body = "pass"   -> Goto(t, "with_exit") /\ Step(t)
       [] body = "raise"  -> Goto(t, "with_exit_raised") /\ Step(t)
       [] body = "logout" -> Call(t, "logout_post", "with_exit")
  /\ UNCHANGED <<config, evaluation, workflow, listVars, sessionVars, next_token, active, callers, history,
                 args, received, frame, authLocals>>

\* __exit__(exc_type, exc_val, exc_tb): super().logout()
WithExit(t) ==
  /\ pc[t] \in {"with_exit", "with_exit_raised"}
  /\ Log(t, Event("exit", NoPrepped, NoResponse, 0))
  /\ Call(t, "logout_post", IF pc[t] = "with_exit_raised" THEN "with_reraise" ELSE "with_end")
  /\ UNCHANGED <<config, evaluation, workflow, listVars, sessionVars, next_token, active, callers, history,
                 args, received, frame, authLocals>>

\* __exit__ returns None: a pending exception is raised again after it
WithEnd(t) ==
  /\ pc[t] \in {"with_end", "with_reraise"}
  /\ IF pc[t] = "with_reraise" THEN Raise(t, "BodyError") ELSE Return(t, NoResponse)
  /\ UNCHANGED <<config, evaluation, workflow, listVars, sessionVars, next_token, active, callers, history,
                 args, received, frame, authLocals, trace>>

\* --------------------------------------------------------- _format_base_url
\* self.base_url = _format_base_url(base_url)
ApplyFormatBaseUrl ==
  /\ given.fn = "_format_base_url" /\ value = <<>>
  /\ value' = <<FormatBaseUrl(given.base_url)>>
  /\ UNCHANGED <<config, given, workflow, listVars, sessionVars, next_token, active, callers, pc, stack, op,
                 frame, authLocals, args, outcome, received, trace, history>>

\* ---------------------------------- CollectionParameters.parameter_string
ValueChars == {"a", "'", " ", "+", "\\"}
FilterValues == Strings(ValueChars, MaxValueLen)
FilterFields == {<<"i", "d">>}
FilterOperators == {<<"e", "q">>, <<"n", "e">>}
\* filter_string: None, or a complete filter written by the caller
FilterStrings == {<<>>, <<"i", "d", " ", "e", "q", " ", "'", "a", "'">>}

FilterKey == <<"$", "f", "i", "l", "t", "e", "r", "=">>

\* string.replace("'", r"\'").replace(' ', '+')
PreprocessFilter(string) == Replace(Replace(string, "'", <<"\\", "'">>), " ", <<"+">>)

\* f"${'&'.join(param_list)}" for a list of one parameter
FormParamString(param) == <<"$">> \o param

\* the filter branch of parameter_string; every other parameter is None
ParameterString(filter_string, filter_field, filter_operator, filter_value) ==
  IF filter_string # <<>>
  THEN FormParamString(PreprocessFilter(FilterKey \o filter_string \o <<"'">>))
  ELSE FormParamString(PreprocessFilter(
         FilterKey \o filter_field \o <<" ">> \o filter_operator \o <<" ", "'">>
                   \o filter_value \o <<"'">>))

\* CollectionParameters(filter_field=.., filter_operator=.., filter_value=..)
\*   .parameter_string()
ApplyParameterString ==
  /\ given.fn = "parameter_string" /\ value = <<>>
  /\ value' = <<ParameterString(given.filter_string, given.filter_field,
                                given.filter_operator, given.filter_value)>>
  /\ UNCHANGED <<config, given, workflow, listVars, sessionVars, next_token, active, callers, pc, stack, op,
                 frame, authLocals, args, outcome, received, trace, history>>

\* ------------------------------------------------- requests of the methods
ContractMethods == {"patch_contract", "lookup_contract", "delete_contract"}
ContractGuids == {"g1", "g2"}

\* the request that a method of the contracts resource builds for a guid
ContractRequest(method, guid) ==
  CASE method = "patch_contract"  -> patch_contract_request(guid, "comment")
    [] method = "lookup_contract" -> lookup_contract_request(guid)
    [] OTHER                      -> delete_contract_request(guid)

\* req = requests.Request(...)
ApplyContractRequest ==
  /\ given.fn = "request" /\ value = <<>>
  /\ value' = <<ContractRequest(given.method, given.guid)>>
  /\ UNCHANGED <<config, given, workflow, listVars, sessionVars, next_token, active, callers, pc, stack, op,
                 frame, authLocals, args, outcome, received, trace, history>>

\* ------------------------------------------------------ response wrappers
\* the classes that the public methods wrap the response of _send_request in
Wrappers == {"AlliantApiResponse", "Collection", "Adjustment", "Contract"}

\* shapes of a response body:
\*   envelope    {"errors": [], "hasErrors": false, "result": {<a resource>}}
\*   collection  {"errors": [], "hasErrors": false, "result": {"items": [..], ..}}
\*   has_errors  {"errors": [..], "hasErrors": true, "result": null}
\*   not_json    a body that is not JSON
WrappedBodies == Bodies \cup {"collection"}

PyNone == "<None>"

\* what a wrapper hands to the caller: the exception its constructor raised
\* ("" for none) and the attributes it set
Wrapped(e, errs, has, res) == [exc |-> e, errors |-> errs, has_errors |-> has, result |-> res]

\* AlliantApiResponse.__init__: the envelope fields, or the error outcome
\* when json() raises JSONDecodeError
AlliantApiResponse(body) ==
  CASE body = "not_json"   -> Wrapped("", <<>>, TRUE, PyNone)
    [] body = "has_errors" -> Wrapped("", <<"error">>, TRUE, PyNone)
    [] body = "collection" -> Wrapped("", <<>>, FALSE, "page")
    [] OTHER               -> Wrapped("", <<>>, FALSE, "resource")

\* mutant: Collection sets no attribute of its own
Collection_NoPaging(body) == AlliantApiResponse(body)

\* Collection.__init__: self.result.get(...) on the result of the base class,
\* then the guids of the items
Collection(body) ==
  LET base == AlliantApiResponse(body)
  IN  CASE base.result = PyNone     -> Wrapped("AttributeError", base.errors, base.has_errors, PyNone)
        [] base.result = "resource" -> Wrapped("TypeError", base.errors, base.has_errors, "resource")
        [] OTHER                    -> base

\* Adjustment.__init__, Contract.__init__: the AttributeError of the status
\* lookup is caught
Resource(body) == AlliantApiResponse(body)

Wrap(class, body) ==
  CASE class = "Collection"         -> Collection(body)
    [] class = "AlliantApiResponse" -> AlliantApiResponse(body)
    [] OTHER                        -> Resource(body)

\* return <Wrapper>(response)
ApplyWrap ==
  /\ given.fn = "wrap" /\ value = <<>>
  /\ value' = <<Wrap(given.class, given.body)>>
  /\ UNCHANGED <<config, given, workflow, listVars, sessionVars, next_token, active, callers, pc, stack, op,
                 frame, authLocals, args, outcome, received, trace, history>>

\* the result of a collection response: a page of items and its neighbours
PageUrls == {PyNone, "/page/1", "/page/3"}
PageItems == UNION { [1..k -> [guid : {"g1", "g2"}]] : k \in 0..2 }
PageResults ==
  { [items |-> i, itemCount |-> Len(i), totalItemCount |-> n,
     previousPageUrl |-> p, nextPageUrl |-> q] :
       i \in PageItems, n \in {2, 40}, p \in PageUrls, q \in PageUrls }

\* Collection.__init__ on a result that is a page: the attributes it sets
CollectionAttributes(result) ==
  [next_page_url |-> result.previousPageUrl,
   previous_page_url |-> result.nextPageUrl,
   items |-> result.items,
   item_count |-> result.itemCount,
   total_item_count |-> result.totalItemCount,
   guids |-> [i \in 1..Len(result.items) |-> result.items[i].guid]]

\* Collection(response) for a response whose result is a page
ApplyCollection ==
  /\ given.fn = "collection" /\ value = <<>>
  /\ value' = <<CollectionAttributes(given.result)>>
  /\ UNCHANGED <<config, given, workflow, listVars, sessionVars, next_token, active, callers, pc, stack, op,
                 frame, authLocals, args, outcome, received, trace, history>>

\* ------------------------------------------------------ filter lookups
\* the lookups by filter, and the two that return the guid of the first item
FilterLookups == {"lookup_contract_with_filter", "lookup_contact_with_filter",
                  "lookup_adjustment_with_filter", "lookup_user_x_with_filter"}
GuidLookups == {"lookup_contract_guid_with_filter", "lookup_contact_guid_with_filter"}

\* the lookup by filter that a guid lookup calls
FilterLookupOf(method) ==
  IF method = "lookup_contract_guid_with_filter" THEN "lookup_contract_with_filter"
  ELSE IF method = "lookup_contact_guid_with_filter" THEN "lookup_contact_with_filter"
  ELSE method

\* the attributes that each class of parameters.py defines or inherits
ClassAttributes(class) ==
  IF class = "ResourceParameters"
  THEN {"form_param_string", "parameter_string"}
  ELSE {"form_param_string", "parameter_string", "_preprocess_filter"}

\* the collection that each lookup by filter addresses
FilterLookupUrl(method) ==
  CASE method = "lookup_contract_with_filter"   -> contracts_url
    [] method = "lookup_contact_with_filter"    -> contacts_url
    [] method = "lookup_adjustment_with_filter" -> adjustment_headers_url
    [] OTHER                                    -> "/data/user1"

\* params = f"{verbosity}&$filter={filter_field} eq+'{str_id}'"
\* req = requests.Request('GET', url, params=params)
FilterLookupRequest(method, verbosity, filter_field, filter_value) ==
  [method |-> "GET", url |-> FilterLookupUrl(method),
   params |-> verbosity \o <<"&">> \o FilterKey \o filter_field \o <<" ", "e", "q", "+", "'">>
                \o PreprocessFilter(filter_value) \o <<"'">>,
   json |-> ""]

\* lookup_..._with_filter(filter_field, filter_value),
\* lookup_..._guid_with_filter(filter_field, filter_value)
CallFilterLookup(t, method, filter_field, filter_value) ==
  /\ Begin(t, method, IF method \in GuidLookups THEN "guid_lookup" ELSE "filter_lookup")
  /\ args' = [args EXCEPT ![t] =
        [method |-> FilterLookupOf(method), filter_field |-> filter_field,
         filter_value |-> filter_value,
         verbosity |-> IF method \in GuidLookups THEN <<"m", "i", "n">> ELSE <<"d", "e", "f">>]]
  /\ trace' = [trace EXCEPT ![t] = <<>>]
  /\ received' = [received EXCEPT ![t] = NoResponse]
  /\ UNCHANGED <<config, evaluation, workflow, listVars, sessionVars, next_token, active, frame, authLocals>>

\* response = self.lookup_contract_with_filter(filter_field, filter_value, verbosity='minimal')
GuidLookup(t) ==
  /\ pc[t] = "guid_lookup"
  /\ Call(t, "filter_lookup", "first_guid")
  /\ UNCHANGED <<config, evaluation, workflow, listVars, sessionVars, next_token, active, callers, history,
                 args, received, frame, authLocals, trace>>

\* str_id = ResourceParameters._preprocess_filter(str(filter_value)): the
\* attribute is looked up on the class; without it the statement raises
\* AttributeError and the statements after it (the request, _send_request,
\* Collection(response)) are not reached
FilterLookup(t) ==
  /\ pc[t] = "filter_lookup"
  /\ IF "_preprocess_filter" \notin ClassAttributes("ResourceParameters")
     THEN /\ Raise(t, "AttributeError")
          /\ UNCHANGED <<frame, trace, received>>
     ELSE /\ Call(t, "send", "filter_return")
          /\ Enter(t, FilterLookupRequest(args[t].method, args[t].verbosity,
                                          args[t].filter_field, args[t].filter_value))
  /\ UNCHANGED <<config, evaluation, workflow, listVars, sessionVars, next_token, active, callers, history,
                 args, authLocals>>

\* ------------------------------------------- workflow methods of AlliantApi
\* the displayName of the statusReference of a resource; 'Setup' is no status
\* of the server, it stands for any text that is part of another status name
StatusNames == {"Active", "In Revision", "In Setup", "Prior Revision", "Complete",
                "Approved", "Setup"}
\* bodies of the responses to the requests of a workflow:
\*   <a status name>  {"result": {.., "statusReference": {"displayName": <name>}}}
\*   no_status        {"result": {..}} without statusReference
\*   has_errors       {"errors": [..], "hasErrors": true, "result": null}
\*   not_json         a body that is not JSON
ResourceBodies == StatusNames \cup {"no_status", "has_errors", "not_json"}
WorkflowStatuses == {200, 500}

\* self.result of the wrapper is a dict
HasResult(body) == body \notin {"has_errors", "not_json"}

\* Contract.__init__, Adjustment.__init__:
\* self.result.get('statusReference').get('displayName'), None on AttributeError
StatusOf(body) == IF body \in StatusNames THEN body ELSE PyNone

\* the object that a method of the client returns: its class, and the status
\* code and body of the response it wraps
WrapAs(class, r) == [class |-> class, status |-> r.status, body |-> r.body]

\* the object has the attribute contract_status / adjustment_status
HasStatus(w) == w.class \in {"Contract", "Adjustment"}

\* requests.Response.__bool__: self.ok
Truthy(w) == w.status < 400

Noted(kind, what) == [ev |-> kind, what |-> what]

\* the workflow assigns the object a method returned to its local `response`
Assign(t, w, notes) ==
  workflow' = [workflow EXCEPT ![t].response = w, ![t].log = @ \o notes]

\* a method of the client that builds one request and returns the wrapped
\* response of _send_request: lookup_contract, lookup_adjustment, delete_contract
WorkflowSend(t, r, back) ==
  /\ Call(t, "send", back)
  /\ Enter(t, r)
  /\ UNCHANGED <<config, evaluation, workflow, listVars, sessionVars, next_token, active,
                 callers, history, args, authLocals>>

\* self.contract_action(guid, action, comment), self.adjustment_action(...)
WorkflowAction(t, resource, action, comment, back) ==
  /\ Call(t, "action_check", back)
  /\ args' = [args EXCEPT ![t] =
        [resource |-> resource, action |-> action, comment |-> comment, guid |-> "g1",
         session |-> <<>>]]
  /\ UNCHANGED <<config, evaluation, workflow, listVars, sessionVars, next_token, active,
                 callers, history, received, frame, authLocals, trace>>

\* a statement of the workflow that calls nothing
WorkflowStep(t, label) ==
  /\ Goto(t, label)
  /\ Step(t)

\* the value the last call left for the workflow is consumed
Taken(t) ==
  /\ response' = [response EXCEPT ![t] = NoResponse]
  /\ received' = [received EXCEPT ![t] = NoResponse]
  /\ trace' = [trace EXCEPT ![t] = <<>>]
  /\ UNCHANGED <<config, evaluation, listVars, sessionVars, next_token, active, callers,
                 history, args, req, prepped, retried_count, retry_time, authLocals>>

CallWorkflow(t, method, label, message) ==
  /\ Begin(t, method, label)
  /\ workflow' = [workflow EXCEPT ![t] = [NoWorkflow EXCEPT !.message = message]]
  /\ args' = [args EXCEPT ![t] = NoArgs]
  /\ trace' = [trace EXCEPT ![t] = <<>>]
  /\ received' = [received EXCEPT ![t] = NoResponse]
  /\ UNCHANGED <<config, evaluation, listVars, sessionVars, next_token, active, frame, authLocals>>

\* the string that process_contract_deletion returns, as a response record
Report(text) == [status |-> 0, body |-> text, n |-> 0]

CodeName(st) == IF st = 200 THEN "200" ELSE "error"

\* ------------------------------------------- process_contract_deletion
DeletableStatuses == {"In Revision", "In Setup", "Prior Revision"}

CallProcessContractDeletion(t) ==
  CallWorkflow(t, "process_contract_deletion", "d_lookup", "")

\* response = super().lookup_contract(guid), the first and the second time
DeletionLookup(t) ==
  /\ pc[t] \in {"d_lookup", "d_lookup_again"}
  /\ WorkflowSend(t, lookup_contract_request("g1"),
                  IF pc[t] = "d_lookup" THEN "d_status" ELSE "d_status_again")

\* if response.contract_status == 'Active': ...
DeletionStatus(t) ==
  /\ pc[t] \in {"d_status", "d_status_again"}
  /\ Assign(t, WrapAs("Contract", response[t]),
            <<Noted("lookup", StatusOf(response[t].body))>>)
  /\ WorkflowStep(t, IF pc[t] = "d_status" /\ StatusOf(response[t].body) = "Active"
                     THEN "d_revise" ELSE "d_decide")
  /\ Taken(t)

\* super().contract_action(guid, 'revise')
DeletionRevise(t) ==
  /\ pc[t] = "d_revise"
  /\ WorkflowAction(t, "contract", "revise", NoComment, "d_revised")

DeletionRevised(t) ==
  /\ pc[t] = "d_revised"
  /\ workflow' = [workflow EXCEPT ![t].log = Append(@, Noted("action", "revise"))]
  /\ WorkflowStep(t, "d_lookup_again")
  /\ Taken(t)

\* mutant: the contract is deleted whatever its status is
DeletionDecide_Always(t) ==
  /\ pc[t] = "d_decide"
  /\ WorkflowSend(t, delete_contract_request("g1"), "d_deleted")

\* if response.contract_status in ('In Revision', 'In Setup', 'Prior Revision'):
\*     response = super().delete_contract(guid)
\* return f"{guid} - {response.contract_status} not deleted"
DeletionDecide(t) ==
  /\ pc[t] = "d_decide"
  /\ IF StatusOf(workflow[t].response.body) \in DeletableStatuses
     THEN WorkflowSend(t, delete_contract_request("g1"), "d_deleted")
     ELSE /\ Return(t, Report("not deleted"))
          /\ UNCHANGED <<config, evaluation, workflow, listVars, sessionVars, next_token,
                         active, callers, history, args, received, frame, authLocals, trace>>

\* if response.status_code == 200: return f"{guid} - Successfully deleted"
\* else: return f"{guid} - Error - {response.errors}"
DeletionReport(t) ==
  /\ pc[t] = "d_deleted"
  /\ Assign(t, WrapAs("AlliantApiResponse", response[t]),
            <<Noted("delete", CodeName(response[t].status))>>)
  /\ Return(t, Report(IF response[t].status = 200 THEN "Successfully deleted" ELSE "Error"))
  /\ Taken(t)

DeletionSteps(t) ==
  \/ DeletionLookup(t)
  \/ DeletionStatus(t)
  \/ DeletionRevise(t)
  \/ DeletionRevised(t)
  \/ DeletionDecide(t)
  \/ DeletionReport(t)

\* ------------------------------------------- complete_and_approve_contract
CompletableStatuses == {"In Revision", "In Setup"}

\* what the caller passes as approve_message
ApproveMessages == Comments

CallCompleteAndApproveContract(t, approve_message) ==
  CallWorkflow(t, "complete_and_approve_contract", "c_lookup", approve_message)

\* response = self.lookup_contract(guid): the first one, the one after
\* 'complete' and the one after 'approve'
ContractLookup(t) ==
  /\ pc[t] \in {"c_lookup", "c_lookup_completed", "c_lookup_approved"}
  /\ WorkflowSend(t, lookup_contract_request("g1"),
                  CASE pc[t] = "c_lookup" -> "c_first"
                    [] pc[t] = "c_lookup_completed" -> "c_second"
                    [] OTHER -> "c_third")

\* mutant: 'complete' is sent whatever the first status is
ContractFirst_AlwaysComplete(t) ==
  /\ pc[t] = "c_first"
  /\ Assign(t, WrapAs("Contract", response[t]),
            <<Noted("lookup", StatusOf(response[t].body))>>)
  /\ IF ~HasResult(response[t].body)
     THEN Raise(t, "TypeError")
     ELSE WorkflowStep(t, "c_complete")
  /\ Taken(t)

\* contract_id = response.result['id']
\* if response.contract_status in ('In Revision', 'In Setup'):
ContractFirst(t) ==
  /\ pc[t] = "c_first"
  /\ Assign(t, WrapAs("Contract", response[t]),
            <<Noted("lookup", StatusOf(response[t].body))>>)
  /\ IF ~HasResult(response[t].body)
     THEN Raise(t, "TypeError")
     ELSE WorkflowStep(t, IF StatusOf(response[t].body) \in CompletableStatuses
                          THEN "c_complete" ELSE "c_check")
  /\ Taken(t)

\* self.contract_action(guid, 'complete')
ContractComplete(t) ==
  /\ pc[t] = "c_complete"
  /\ WorkflowAction(t, "contract", "complete", NoComment, "c_completed")

ContractCompleted(t) ==
  /\ pc[t] = "c_completed"
  /\ workflow' = [workflow EXCEPT ![t].log = Append(@, Noted("action", "complete"))]
  /\ WorkflowStep(t, "c_lookup_completed")
  /\ Taken(t)

\* response = self.lookup_contract(guid) after 'complete' and after 'approve'
ContractLookedUp(t) ==
  /\ pc[t] \in {"c_second", "c_third"}
  /\ Assign(t, WrapAs("Contract", response[t]),
            <<Noted("lookup", StatusOf(response[t].body))>>)
  /\ WorkflowStep(t, IF pc[t] = "c_second" THEN "c_check" ELSE "c_final")
  /\ Taken(t)

\* if response.contract_status == 'Complete':
\*     response = self.contract_action(guid, 'approve', approve_message)
ContractCheck(t) ==
  /\ pc[t] = "c_check"
  /\ IF StatusOf(workflow[t].response.body) = "Complete"
     THEN WorkflowAction(t, "contract", "approve", workflow[t].message, "c_approved")
     ELSE /\ WorkflowStep(t, "c_final")
          /\ UNCHANGED <<config, evaluation, workflow, listVars, sessionVars, next_token,
                         active, callers, history, args, received, frame, authLocals, trace>>

\* if response: response = self.lookup_contract(guid)
ContractApproved(t) ==
  /\ pc[t] = "c_approved"
  /\ Assign(t, WrapAs("AlliantApiResponse", response[t]), <<Noted("action", "approve")>>)
  /\ WorkflowStep(t, IF Truthy(response[t]) THEN "c_lookup_approved" ELSE "c_final")
  /\ Taken(t)

\* logging.info(f"... final contract status is {response.contract_status}")
\* return response
ContractFinal(t) ==
  /\ pc[t] = "c_final"
  /\ IF HasStatus(workflow[t].response)
     THEN Return(t, [status |-> workflow[t].response.status,
                     body |-> workflow[t].response.body, n |-> 0])
     ELSE Raise(t, "AttributeError")
  /\ UNCHANGED <<config, evaluation, workflow, listVars, sessionVars, next_token,
                 active, callers, history, args, received, frame, authLocals, trace>>

ContractSteps(t) ==
  \/ ContractLookup(t)
  \/ ContractFirst(t)
  \/ ContractComplete(t)
  \/ ContractCompleted(t)
  \/ ContractLookedUp(t)
  \/ ContractCheck(t)
  \/ ContractApproved(t)
  \/ ContractFinal(t)

\* ---------------------------------------- complete_approve_post_adjustment
\* the characters of a status, None has none
Spelling(status) ==
  CASE status = "Active" -> <<"A", "c", "t", "i", "v", "e">>
    [] status = "In Revision" -> <<"I", "n", " ", "R", "e", "v", "i", "s", "i", "o", "n">>
    [] status = "In Setup" -> <<"I", "n", " ", "S", "e", "t", "u", "p">>
    [] status = "Prior Revision" ->
         <<"P", "r", "i", "o", "r", " ", "R", "e", "v", "i", "s", "i", "o", "n">>
    [] status = "Complete" -> <<"C", "o", "m", "p", "l", "e", "t", "e">>
    [] status = "Approved" -> <<"A", "p", "p", "r", "o", "v", "e", "d">>
    [] status = "Setup" -> <<"S", "e", "t", "u", "p">>
    [] OTHER -> <<>>

\* str.__contains__: a in b for two strings
IsPartOf(a, b) ==
  \E i \in 0..(Len(b) - Len(a)) : SubSeq(b, i + 1, i + Len(a)) = a

\* status in ('In Setup'): the parentheses make no tuple, the right operand
\* is the string 'In Setup'; "TypeError" when status is None
InInSetup(status) ==
  IF status = PyNone THEN "TypeError"
  ELSE IF IsPartOf(Spelling(status), Spelling("In Setup")) THEN "True"
  ELSE "False"

CallCompleteApprovePostAdjustment(t, approve_message) ==
  CallWorkflow(t, "complete_approve_post_adjustment", "a_lookup", approve_message)

\* response = self.lookup_adjustment(guid): the first one and the ones after
\* 'complete', 'approve' and 'post'
AdjustmentLookup(t) ==
  /\ pc[t] \in {"a_lookup", "a_lookup_completed", "a_lookup_approved", "a_lookup_posted"}
  /\ WorkflowSend(t, lookup_adjustment_request("g1"),
                  CASE pc[t] = "a_lookup" -> "a_first"
                    [] pc[t] = "a_lookup_completed" -> "a_second"
                    [] pc[t] = "a_lookup_approved" -> "a_third"
                    [] OTHER -> "a_fourth")

\* adjustment_descr = response.result['description']
\* if response.adjustment_status in ('In Setup'):
AdjustmentFirst(t) ==
  /\ pc[t] = "a_first"
  /\ Assign(t, WrapAs("Adjustment", response[t]),
            <<Noted("lookup", StatusOf(response[t].body))>>)
  /\ IF ~HasResult(response[t].body) \/ InInSetup(StatusOf(response[t].body)) = "TypeError"
     THEN Raise(t, "TypeError")
     ELSE WorkflowStep(t, IF InInSetup(StatusOf(response[t].body)) = "True"
                          THEN "a_complete" ELSE "a_approve")
  /\ Taken(t)

\* self.adjustment_action(guid, 'complete')
AdjustmentComplete(t) ==
  /\ pc[t] = "a_complete"
  /\ WorkflowAction(t, "adjustment", "complete", NoComment, "a_completed")

AdjustmentCompleted(t) ==
  /\ pc[t] = "a_completed"
  /\ workflow' = [workflow EXCEPT ![t].log = Append(@, Noted("action", "complete"))]
  /\ WorkflowStep(t, "a_lookup_completed")
  /\ Taken(t)

\* response = self.lookup_adjustment(guid) after an action
AdjustmentLookedUp(t) ==
  /\ pc[t] \in {"a_second", "a_third", "a_fourth"}
  /\ Assign(t, WrapAs("Adjustment", response[t]),
            <<Noted("lookup", StatusOf(response[t].body))>>)
  /\ WorkflowStep(t, CASE pc[t] = "a_second" -> "a_approve"
                       [] pc[t] = "a_third" -> "a_post"
                       [] OTHER -> "a_final")
  /\ Taken(t)

\* if response.adjustment_status == 'Complete':
\*     response = self.adjustment_action(guid, 'approve', approve_message)
AdjustmentApprove(t) ==
  /\ pc[t] = "a_approve"
  /\ IF StatusOf(workflow[t].response.body) = "Complete"
     THEN WorkflowAction(t, "adjustment", "approve", workflow[t].message, "a_approved")
     ELSE /\ WorkflowStep(t, "a_post")
          /\ UNCHANGED <<config, evaluation, workflow, listVars, sessionVars, next_token,
                         active, callers, history, args, received, frame, authLocals, trace>>

\* if response: response = self.lookup_adjustment(guid)
AdjustmentApproved(t) ==
  /\ pc[t] = "a_approved"
  /\ Assign(t, WrapAs("AlliantApiResponse", response[t]), <<Noted("action", "approve")>>)
  /\ WorkflowStep(t, IF Truthy(response[t]) THEN "a_lookup_approved" ELSE "a_post")
  /\ Taken(t)

\* if response.adjustment_status == 'Approved':
\*     response = self.adjustment_action(guid, 'post', approve_message)
AdjustmentPost(t) ==
  /\ pc[t] = "a_post"
  /\ IF ~HasStatus(workflow[t].response)
     THEN /\ Raise(t, "AttributeError")
          /\ UNCHANGED args
     ELSE IF StatusOf(workflow[t].response.body) = "Approved"
     THEN /\ Call(t, "action_check", "a_posted")
          /\ args' = [args EXCEPT ![t] =
                [resource |-> "adjustment", action |-> "post",
                 comment |-> workflow[t].message, guid |-> "g1", session |-> <<>>]]
     ELSE /\ WorkflowStep(t, "a_final")
          /\ UNCHANGED args
  /\ UNCHANGED <<config, evaluation, workflow, listVars, sessionVars, next_token,
                 active, callers, history, received, frame, authLocals, trace>>

\* if response: response = self.lookup_adjustment(guid)
AdjustmentPosted(t) ==
  /\ pc[t] = "a_posted"
  /\ Assign(t, WrapAs("AlliantApiResponse", response[t]), <<Noted("action", "post")>>)
  /\ WorkflowStep(t, IF Truthy(response[t]) THEN "a_lookup_posted" ELSE "a_final")
  /\ Taken(t)

\* logging.info(f"... final adjustment status is {response.adjustment_status}")
\* return response
AdjustmentFinal(t) ==
  /\ pc[t] = "a_final"
  /\ IF HasStatus(workflow[t].response)
     THEN Return(t, [status |-> workflow[t].response.status,
                     body |-> workflow[t].response.body, n |-> 0])
     ELSE Raise(t, "AttributeError")
  /\ UNCHANGED <<config, evaluation, workflow, listVars, sessionVars, next_token,
                 active, callers, history, args, received, frame, authLocals, trace>>

AdjustmentSteps(t) ==
  \/ AdjustmentLookup(t)
  \/ AdjustmentFirst(t)
  \/ AdjustmentComplete(t)
  \/ AdjustmentCompleted(t)
  \/ AdjustmentLookedUp(t)
  \/ AdjustmentApprove(t)
  \/ AdjustmentApproved(t)
  \/ AdjustmentPost(t)
  \/ AdjustmentPosted(t)
  \/ AdjustmentFinal(t)

\* ------------------------------------------------------------ specification
\* the statements of adjustment_action and contract_action
ActionSteps(t) ==
  \/ ActionCheck(t)
  \/ ActionSend(t)
  \/ ActionReturn(t)

\* the statements of _send_request
SendSteps(t) ==
  \/ \E st \in Statuses, b \in Bodies : Send(t, st, b)
  \/ IfRetries(t)
  \/ While(t)
  \/ Sleep(t)
  \/ Relogin(t)
  \/ Settle(t)
  \/ Prepare(t)
  \/ \E st \in Statuses, b \in Bodies : Resend(t, st, b)
  \/ CheckExhausted(t)
  \/ ReturnResponse(t)

\* the statements of login and logout
AuthSteps(t) ==
  \/ LoginCheck(t)
  \/ \E body \in LoginBodies : LoginPost(t, body)
  \/ LoginSetToken(t)
  \/ LoginSetExpires(t)
  \/ LoginSetHeader(t)
  \/ LoginUpdateSession(t)
  \/ \E st \in LogoutStatuses, b \in {"envelope", "not_json"} : LogoutPost(t, st, b)
  \/ LogoutClear(t)

Next ==
  \/ \E t \in Threads :
        \/ \E code \in Removable : RemoveCode(t, code)
        \/ CallLogin(t)
        \/ CallLogout(t)
        \/ \E r \in Requests : CallSendRequest(t, r)
        \/ \E resource \in Resources, guid \in Guids, action \in Actions, comment \in Comments :
              CallAction(t, resource, guid, action, comment)
        \/ ActionSteps(t)
        \/ SendSteps(t)
        \/ AuthSteps(t)

Init == InitWith(0..MaxRetries, {DefaultDelay}, {DefaultBackoff}, {1}, MaxCalls)

Spec == Init /\ [][Next]_vars


\* the delays and backoffs of the constructor vary, the retry count is the
\* largest, the program performs one operation
InitBackoff == InitWith({MaxRetries}, Delays, Backoffs, {1}, 1)

SpecBackoff == InitBackoff /\ [][Next]_vars

\* a sequential program that performs one operation more, with at most one retry
InitSession == InitWith({0, 1}, {DefaultDelay}, {DefaultBackoff}, {1}, MaxCalls + 1)

SpecSession == InitSession /\ [][Next]_vars

\* two threads share the client, each makes one call, one retry is allowed
InitConc == InitWith({1}, {DefaultDelay}, {DefaultBackoff}, {1, 2}, 1)

SpecConc == InitConc /\ [][Next]_vars

\* clients of several users and servers; the program performs one operation
\* with two retries
InitIdentity ==
  /\ ConstructedFrom(ClientArguments, {2}, {DefaultDelay}, {DefaultBackoff}, {1}, 1)
  /\ given = NoGiven
  /\ value = <<>>

SpecIdentity == InitIdentity /\ [][Next]_vars

\* ================================================================ properties
InSendRequest(t) == op[t] = "_send_request"
Ended(t) == InSendRequest(t) /\ pc[t] = "idle" /\ outcome[t].kind # "none"
Returned(t) == InSendRequest(t) /\ pc[t] = "idle" /\ outcome[t].kind = "returned"
Raised(t) == InSendRequest(t) /\ pc[t] = "idle" /\ outcome[t].kind = "raised"

Sends(t) == Count(trace[t], "send")
Retries(t) == Count(trace[t], "retry")

\* k: the number of consecutive responses, from the first send on, whose status
\* was in error_codes_to_retry when the response arrived
LeadingRetryable(t) ==
  LET s == Of(trace[t], "send")
  IN  Cardinality({i \in 1..Len(s) : \A j \in 1..i : s[j].num = 1})

\* the steps of a call of _send_request in the order of the source
Cycle == <<"retry", "sleep", "logout", "login", "settle", "prepare", "send">>

Pattern(i) ==
  IF i = 1 THEN "prepare"
  ELSE IF i = 2 THEN "send"
  ELSE Cycle[((i - 3) % 7) + 1]

\* the logout and login requests of a trace, in order
RECURSIVE Auth(_)
Auth(tr) ==
  IF tr = <<>> THEN <<>>
  ELSE IF Head(tr).ev \in {"logout", "login"} THEN <<Head(tr).ev>> \o Auth(Tail(tr))
  ELSE Auth(Tail(tr))

SameRequest(p, q) ==
  /\ p.method = q.method
  /\ p.url = q.url
  /\ p.params = q.params
  /\ p.json = q.json


\* ---------------------------------------------------------------------- C1
\* C1: with number_of_retries = N >= 1, a call of _send_request that has
\* ended has sent the request exactly 1 + min(N, k) times, k being the number
\* of consecutive retryable responses counted from the first send.
C1_SendCount ==
  \A t \in Threads :
    (Ended(t) /\ number_of_retries >= 1) =>
       Sends(t) = 1 + Min(number_of_retries, LeadingRetryable(t))

\* the same count on the calls that end by returning, and the two bounds of
\* the claim on every call
SendCountWhenReturned ==
  \A t \in Threads :
    /\ (Returned(t) /\ number_of_retries >= 1) =>
          Sends(t) = 1 + Min(number_of_retries, LeadingRetryable(t))
    /\ (InSendRequest(t) /\ number_of_retries >= 1) =>
          /\ Sends(t) <= number_of_retries + 1
          /\ Sends(t) <= LeadingRetryable(t) + 1

\* ---------------------------------------------------------------------- C2
\* C2: with a single caller, the logout and login requests of a call of
\* _send_request alternate, logout first, never more than one of each per
\* retry attempt; a call that has ended after r retry attempts has issued
\* exactly r logout requests and exactly r login requests.
C2_OneCyclePerRetry ==
  \A t \in Threads : InSendRequest(t) =>
    LET a == Auth(trace[t]) IN
    /\ \A i \in 1..Len(a) : a[i] = (IF i % 2 = 1 THEN "logout" ELSE "login")
    /\ Count(trace[t], "logout") <= Retries(t)
    /\ Ended(t) => /\ Count(trace[t], "logout") = Retries(t)
                   /\ Count(trace[t], "login") = Retries(t)

\* a call that retried twice, the first re-login having set a token
C2_Witness ==
  \E t \in Threads :
    /\ Ended(t) /\ Retries(t) = 2
    /\ \E i \in 1..Len(trace[t]) :
          trace[t][i].ev = "logout" /\ trace[t][i].req.session # None
    /\ Count(trace[t], "logout") = 2 /\ Count(trace[t], "login") = 2

\* ---------------------------------------------------------------------- C3
\* C3: with number_of_retries = 0 a call of _send_request prepares and sends
\* the request once, sleeps never, sends no logout and no login, and returns
\* the response to that first send, whatever its status.
C3_NoRetryWhenZero ==
  \A t \in Threads : (InSendRequest(t) /\ number_of_retries = 0) =>
    /\ Len(trace[t]) <= 2
    /\ \A i \in 1..Len(trace[t]) : trace[t][i].ev = Pattern(i)
    /\ outcome[t].kind # "raised"
    /\ Returned(t) => /\ Len(trace[t]) = 2
                      /\ outcome[t].response = received[t]
                      /\ received[t].n = 1

\* a retryable status returned after one send
C3_Witness ==
  \E t \in Threads :
    /\ Returned(t) /\ number_of_retries = 0
    /\ outcome[t].response.status = 500 /\ InSeq(500, ErrorCodes)
    /\ Sends(t) = 1

\* ---------------------------------------------------------------------- C4
\* C4: a call of _send_request never ends by raising, whatever the server
\* answers to the request, to the logout and to the login.
C4_NeverRaises ==
  \A t \in Threads : ~Raised(t)

\* ---------------------------------------------------------------------- C5
\* C5: the value _send_request returns is the response to the last send of
\* the call: the first send when no retry happened, else the send of the last
\* retry attempt, also when its status is still retryable.
C5_ReturnsLastResponse ==
  \A t \in Threads : Returned(t) =>
    /\ outcome[t].response = received[t]
    /\ outcome[t].response.n = Sends(t)
    /\ Sends(t) = Retries(t) + 1

\* retries exhausted, the last status still retryable, and it is returned
C5_Witness ==
  \E t \in Threads :
    /\ Returned(t) /\ Sends(t) = 3 /\ number_of_retries = 2
    /\ outcome[t].response.n = 3
    /\ InSeq(outcome[t].response.status, ErrorCodes)


\* ---------------------------------------------------------------------- C6
\* C6: the backoff sleep that opens the n-th retry attempt of a call lasts
\* retry_delay * retry_backoff^(n-1).
C6_BackoffSleeps ==
  \A t \in Threads : InSendRequest(t) =>
    LET s == Of(trace[t], "sleep") IN
    \A n \in 1..Len(s) : s[n].num = retry_delay * Pow(retry_backoff, n - 1)

\* the defaults: 3, 6, 12
C6_Witness ==
  \E t \in Threads :
    LET s == Of(trace[t], "sleep") IN
    /\ InSendRequest(t) /\ retry_delay = 3 /\ retry_backoff = 2
    /\ Len(s) = 3 /\ s[1].num = 3 /\ s[2].num = 6 /\ s[3].num = 12

\* ---------------------------------------------------------------------- C7
\* C7: a call of _send_request prepares and sends, and then every retry
\* attempt does, in this order and nothing else: backoff sleep, logout, login,
\* settle sleep of 1 second, prepare, send.
C7_StepOrder ==
  \A t \in Threads : InSendRequest(t) =>
    /\ \A i \in 1..Len(trace[t]) :
          /\ trace[t][i].ev = Pattern(i)
          /\ trace[t][i].ev = "settle" => trace[t][i].num = 1
    /\ Returned(t) => Len(trace[t]) = 2 + 7 * Retries(t)

\* two whole retry attempts, with a backoff that differs from the settle sleep
C7_Witness ==
  \E t \in Threads :
    /\ Returned(t) /\ Retries(t) = 2 /\ Len(trace[t]) = 16
    /\ trace[t][11].ev = "sleep" /\ trace[t][11].num = 9
    /\ trace[t][14].ev = "settle" /\ trace[t][14].num = 1

C9_RetryIffStatus ==
  \A t \in Threads :
    LET retryable == InSeq(received[t].status, ErrorCodes) IN
    /\ pc[t] = "sleep" => (number_of_retries > 0 /\ retryable)
    /\ pc[t] = "return" => ~(number_of_retries > 0 /\ retryable)

\* C9 amended: a retry attempt starts if and only if number_of_retries > 0,
\* the status of the latest response is in error_codes_to_retry and fewer
\* than number_of_retries attempts were made; the body plays no part.
C9_RetryIffStatusAndBudget ==
  \A t \in Threads :
    LET retryable == InSeq(received[t].status, ErrorCodes) IN
    /\ pc[t] = "sleep" =>
          (number_of_retries > 0 /\ retryable /\ Retries(t) - 1 < number_of_retries)
    /\ pc[t] = "return" =>
          ~(number_of_retries > 0 /\ retryable /\ Retries(t) < number_of_retries)

\* no retry for a 200 whose body is not JSON, after a retry for a well-formed 500
C9_Witness ==
  \E t \in Threads :
    /\ pc[t] = "return" /\ number_of_retries = 2 /\ Retries(t) = 1
    /\ received[t].status = 200 /\ received[t].body = "not_json"

\* --------------------------------------------------------------------- C10
\* C10: a retry starts only for a status that is in the client's own list at
\* that moment; a call whose first response has a status outside the list
\* (a removed 409) ends after that one send, with no logout and no login, and
\* returns it; the codes left in the list still start retries; the list of
\* the other client stays [500, 403, 409].
C10_PerInstanceCodes ==
  /\ lists[other_error_codes] = <<500, 403, 409>>
  /\ \A t \in Threads :
       /\ pc[t] = "sleep" => InSeq(received[t].status, lists[error_codes_to_retry])
       /\ InSendRequest(t) =>
            LET tr == trace[t] IN
            /\ \A i \in 1..Len(tr) :
                  tr[i].ev = "retry" => (tr[i-1].ev = "send" /\ tr[i-1].num = 1)
            /\ (Len(tr) >= 2 /\ tr[2].num = 0) => Len(tr) = 2
            /\ (Returned(t) /\ tr[2].num = 0) =>
                  (outcome[t].response = received[t] /\ received[t].n = 1)
            /\ (Ended(t) /\ number_of_retries > 0 /\ tr[2].num = 1) => Retries(t) >= 1

\* 409 removed, a 409 returned after one send; a 500 then still retried
C10_Witness ==
  \E t \in Threads :
    /\ Returned(t) /\ number_of_retries >= 1
    /\ ~InSeq(409, ErrorCodes) /\ InSeq(500, ErrorCodes)
    /\ outcome[t].response.status = 409
    /\ Len(trace[t]) = 2

\* ====================================================== login and logout
\* a call of login() or of logout() made by the caller itself
InLogin(t) == op[t] = "login"
InLogout(t) == op[t] = "logout"
Completed(t) == pc[t] = "idle" /\ outcome[t].kind = "returned"

\* the token the server issued in answer to the last login request of the
\* thread's current call, None when the answer carried none
Issued(t) ==
  LET l == Of(trace[t], "login")
  IN  IF l = <<>> THEN None ELSE l[Len(l)].num

\* --------------------------------------------------------------------- C11
\* C11: when login() has returned a response whose result carries token and
\* expires, the client's token is that token, token_expires is that expiry,
\* the X-AlliantSession entry of the client's headers and of the session's
\* headers is that token, and a request prepared now carries it.
C11_LoginStoresToken ==
  \A t \in Threads :
    (InLogin(t) /\ Completed(t) /\ outcome[t].response.body = "token_expires") =>
       LET k == Issued(t) IN
       /\ k # None
       /\ token = k
       /\ token_expires = ExpiresOf(k)
       /\ headers = k
       /\ session_headers = k
       /\ \A r \in Requests : prepare_request(r, session_headers).session = k

\* a second login: the first token was logged out, the second is in place
C11_Witness ==
  \E t \in Threads :
    /\ InLogin(t) /\ Completed(t) /\ outcome[t].response.body = "token_expires"
    /\ Count(trace[t], "logout") = 1
    /\ Issued(t) = 2 /\ token = 2 /\ session_headers = 2

\* --------------------------------------------------------------------- C12
\* C12: a call of login() whose login response has no token field ends by
\* returning, not by raising, and the client's token is None when it ends,
\* whether the token was None or set before the call.
C12_NoTokenReturns ==
  \A t \in Threads :
    (InLogin(t) /\ pc[t] = "idle" /\ outcome[t].kind # "none"
       /\ Count(trace[t], "login") = 1 /\ Issued(t) = None) =>
       /\ outcome[t].kind = "returned"
       /\ token = None

\* the part of C12 the code keeps: a login response without a token leaves
\* the token None, also when login() ends by raising
NoTokenLeavesNone ==
  \A t \in Threads :
    (InLogin(t) /\ pc[t] = "idle" /\ outcome[t].kind # "none"
       /\ Count(trace[t], "login") = 1 /\ Issued(t) = None) => token = None

\* --------------------------------------------------------------------- C13
\* C13: with a single caller, the client's token is None when logout() has
\* returned, whatever the status of the logout response and whatever the
\* token was before: after a call of logout(), after the logout of a retry
\* attempt, and after the logout that login() makes first.
C13_LogoutClearsToken ==
  \A t \in Threads :
    /\ (InLogout(t) /\ Completed(t)) => token = None
    /\ pc[t] = "relogin" => token = None
    /\ pc[t] = "login_post" => token = None

\* a logout the server answered with 500, the token having been set by a login
C13_Witness ==
  \E t \in Threads :
    /\ InLogout(t) /\ Completed(t)
    /\ outcome[t].response.status = 500
    /\ trace[t][1].req.session # None /\ token_expires # None
    /\ token = None

\* --------------------------------------------------------------------- C14
\* the token the client held when the thread's call of login() began
AtEntry(t) == trace[t][1].num

\* login() called with a token set sends a logout request that carries the
\* client's header and then the login request; with no token set, the login
\* request alone
LogoutThenLogin ==
  \A t \in Threads : InLogin(t) =>
    LET tr == trace[t] IN
    /\ Count(tr, "login") >= 1 =>
          Auth(tr) = (IF AtEntry(t) # None THEN <<"logout", "login">> ELSE <<"login">>)
    /\ (Count(tr, "logout") = 1
          /\ pc[t] \in {"logout_clear", "login_post", "login_token", "login_expires"}) =>
          Of(tr, "logout")[1].req.session = headers
    /\ pc[t] = "login_post" => token = None

AllIdle == \A t \in Threads : pc[t] = "idle"

\* calls were made, of login() only
OnlyLogin == history.called = {"login"}

\* the server holds one open session, the one of the client's token
OneActiveToken == token # None /\ active = {token}

OnlyAuthCalls ==
  /\ history.called # {} /\ history.called \subseteq {"login", "logout"}
  /\ \A t \in Threads : pc[t] = "idle" /\ outcome[t].kind # "raised"

\* the X-AlliantSession header the client attaches to a request prepared now
Attached == prepare_request(NoRequest, session_headers).session

\* C15: after any sequence of completed calls of login() and logout(), each
\* login answered with a token and its expiry, the X-AlliantSession header
\* the client attaches to requests is present if and only if the token is not
\* None, and then it equals the token; after logout() it no longer carries
\* the token that was logged out.
C15_HeaderFollowsToken ==
  (OnlyAuthCalls /\ history.login_ok) =>
     /\ (Attached # None) <=> (token # None)
     /\ token # None => Attached = token

\* the half of C15 the code keeps: while the token is set, the header is the token
HeaderIsTokenWhenSet ==
  (OnlyAuthCalls /\ history.login_ok /\ token # None) => Attached = token

\* --------------------------------------------------------------------- C16
\* C16: the request re-sent in a retry attempt carries no token from before
\* the re-login of that attempt: its X-AlliantSession is the token that the
\* re-login was issued, or none, whatever the server answered to the logout
\* and to the login.
C16_NoStaleTokenOnResend ==
  \A t \in Threads :
    (InSendRequest(t) /\ pc[t] = "resend") =>
       prepped[t].session \in {None, Issued(t)}

\* the part of C16 the code keeps: a re-login answered with a token and its
\* expiry puts that token on the re-sent request
ResendCarriesIssued ==
  \A t \in Threads :
    (InSendRequest(t) /\ pc[t] = "resend"
       /\ Issued(t) # None /\ token_expires = ExpiresOf(Issued(t))) =>
       prepped[t].session = Issued(t)

\* ============================================================= concurrency
\* calls were made, of _send_request only, and the server has answered every
\* logout with 200 and every login with a token and its expiry
OnlySendRequest ==
  /\ history.called = {"_send_request"}
  /\ history.login_ok /\ history.logout_ok

\* the thread has sent the logout request of a retry attempt and its login
\* has not returned yet
Reauthenticating(t) ==
  /\ InSendRequest(t)
  /\ pc[t] \in {"logout_clear", "relogin", "login_check", "login_post", "login_token",
                "login_expires", "login_header", "login_session"}

\* --------------------------------------------------------------------- C17
\* C17: threads that call _send_request on one client and receive retryable
\* statuses run at most one logout/login sequence at a time: no two threads
\* are between the logout request and the return of the login together.
C17_OneReauthAtATime ==
  \A t, u \in Threads : (Reauthenticating(t) /\ Reauthenticating(u)) => t = u

\* --------------------------------------------------------------------- C18
\* the step in which the thread prepares a request: lines 202 and 224
Prepares(t) ==
  \/ pc[t] = "idle" /\ pc'[t] = "send"
  \/ pc[t] = "prepare" /\ pc'[t] = "resend"

\* C18: with concurrent callers of _send_request, no thread prepares a
\* request while the client's token and the session header disagree.
C18_NoTornPrepare ==
  [][OnlySendRequest => \A t \in Threads : Prepares(t) => token = session_headers]_vars

\* --------------------------------------------------------------------- C19
\* every thread that called has returned from _send_request after a retry
AllRetriedAndReturned ==
  /\ \E t \in Threads : op[t] # "none"
  /\ \A t \in Threads : op[t] # "none" => (Returned(t) /\ Retries(t) >= 1)

\* C19: when all concurrent calls of _send_request that retried have
\* returned, every login having succeeded, the client's token equals its
\* session header, that token is active on the server, and no other token
\* issued during the retries is still active.
C19_OneConsistentToken ==
  (OnlySendRequest /\ AllRetriedAndReturned) =>
     /\ token = session_headers
     /\ OneActiveToken

\* a program that calls one action method, with any action and with or without
\* a comment, on a client with at most one retry
InitActions == InitWith({0, 1}, {DefaultDelay}, {DefaultBackoff}, {1}, 1)

NextActions ==
  \/ \E t \in Threads :
        \/ \E resource \in Resources, guid \in Guids, action \in AllActions, comment \in Comments :
              CallAction(t, resource, guid, action, comment)
        \/ ActionSteps(t)
        \/ SendSteps(t)
        \/ AuthSteps(t)

SpecActions == InitActions /\ [][NextActions]_vars

\* a program that logs in or out and then uses the client as a context manager
InitBlock == InitWith({0}, {DefaultDelay}, {DefaultBackoff}, {1}, MaxCalls + 1)

NextBlock ==
  \/ \E t \in Threads :
        \/ CallLogin(t)
        \/ CallLogout(t)
        \/ CallWith(t)
        \/ WithEnter(t)
        \/ \E body \in WithBodies : WithBody(t, body)
        \/ WithExit(t)
        \/ WithEnd(t)
        \/ AuthSteps(t)

SpecBlock == InitBlock /\ [][NextBlock]_vars

\* a program that applies one function of the package to one argument
Givens ==
  { [fn |-> "wrap", class |-> c, body |-> b] : c \in Wrappers, b \in WrappedBodies }
  \cup { [fn |-> "_format_base_url", base_url |-> u] : u \in BaseUrls }
  \cup { [fn |-> "parameter_string", filter_string |-> fs, filter_field |-> f,
          filter_operator |-> o, filter_value |-> v] :
            fs \in FilterStrings, f \in FilterFields, o \in FilterOperators,
            v \in FilterValues }
  \cup { [fn |-> "request", method |-> m, guid |-> g] : m \in ContractMethods, g \in ContractGuids }
  \cup { [fn |-> "collection", result |-> r] : r \in PageResults }

InitFunctions ==
  /\ Constructed({0}, {DefaultDelay}, {DefaultBackoff}, {}, 0)
  /\ given \in Givens
  /\ value = <<>>

NextFunctions ==
  \/ ApplyWrap
  \/ ApplyFormatBaseUrl
  \/ ApplyParameterString
  \/ ApplyContractRequest
  \/ ApplyCollection

SpecFunctions == InitFunctions /\ [][NextFunctions]_vars

\* a program that calls one lookup by filter
InitLookups == InitWith({0}, {DefaultDelay}, {DefaultBackoff}, {1}, 1)

NextLookups ==
  \/ \E t \in Threads :
        \/ \E method \in FilterLookups \cup GuidLookups, f \in FilterFields, v \in FilterValues :
              CallFilterLookup(t, method, f, v)
        \/ GuidLookup(t)
        \/ FilterLookup(t)

SpecLookups == InitLookups /\ [][NextLookups]_vars

\* a program that calls one workflow method on a client that does not retry
InitWorkflows == InitWith({0}, {DefaultDelay}, {DefaultBackoff}, {1}, 1)

\* the statements of _send_request that a client without retries executes
SendOnce(t) ==
  \/ \E st \in WorkflowStatuses, b \in ResourceBodies : Send(t, st, b)
  \/ IfRetries(t)
  \/ ReturnResponse(t)

NextWorkflows ==
  \/ \E t \in Threads :
        \/ CallProcessContractDeletion(t)
        \/ DeletionSteps(t)
        \/ \E m \in ApproveMessages : CallCompleteAndApproveContract(t, m)
        \/ ContractSteps(t)
        \/ \E m \in ApproveMessages : CallCompleteApprovePostAdjustment(t, m)
        \/ AdjustmentSteps(t)
        \/ ActionSteps(t)
        \/ SendOnce(t)

SpecWorkflows == InitWorkflows /\ [][NextWorkflows]_vars

\* ========================================================== action methods
InAction(t) == op[t] \in {"adjustment_action", "contract_action"}

\* the allow-list of each resource
AllowList(resource) ==
  IF resource = "adjustment"
  THEN {"approve", "clear", "clearRequest", "copy", "insetup", "post", "complete"}
  ELSE {"approve", "complete", "copy", "insetup", "model", "resolve", "revise"}

\* --------------------------------------------------------------------- C20
\* C20: adjustment_action and contract_action called with an action outside
\* the allow-list of the resource raise ActionNotImplemented, with or without
\* a comment; no request (action, login, logout) is sent before that and the
\* session state is as it was when the call began.
C20_UnknownActionRaises ==
  \A t \in Threads :
    (InAction(t) /\ args[t].action \notin AllowList(args[t].resource)) =>
       /\ pc[t] \in {"action_check", "idle"}
       /\ trace[t] = <<>>
       /\ args[t].session = <<token, token_expires, headers, session_headers, active>>
       /\ pc[t] = "idle" =>
             (outcome[t].kind = "raised" /\ outcome[t].exc = "ActionNotImplemented")

\* a logged-in client; contract_action with an action that only adjustments
\* have, and without a comment
C20_Witness ==
  \E t \in Threads :
    /\ op[t] = "contract_action" /\ pc[t] = "idle"
    /\ args[t].action = "clearRequest" /\ args[t].comment = NoComment
    /\ outcome[t].exc = "ActionNotImplemented"
    /\ token # None /\ trace[t] = <<>>

\* the actions of each resource that need a comment
CommentList(resource) ==
  IF resource = "adjustment" THEN {"approve", "clearRequest"} ELSE {"approve"}

ValidationErrors == {"ActionNotImplemented", "CommentRequired"}

\* --------------------------------------------------------------------- C21
\* C21: adjustment_action with action approve or clearRequest and
\* contract_action with action approve, called without a comment, raise
\* CommentRequired and send no request before that; every other allowed action
\* passes the validation without a comment: the call raises neither validation
\* error and goes on to send its request.
C21_CommentRequired ==
  \A t \in Threads :
    (InAction(t) /\ args[t].comment = NoComment
                 /\ args[t].action \in AllowList(args[t].resource)) =>
       IF args[t].action \in CommentList(args[t].resource)
       THEN /\ pc[t] \in {"action_check", "idle"}
            /\ trace[t] = <<>>
            /\ pc[t] = "idle" =>
                  (outcome[t].kind = "raised" /\ outcome[t].exc = "CommentRequired")
       ELSE /\ outcome[t].exc \notin ValidationErrors
            /\ pc[t] = "idle" => Count(trace[t], "send") >= 1

\* contract_action('approve') without a comment has raised CommentRequired
C21_Witness ==
  \E t \in Threads :
    /\ op[t] = "contract_action" /\ pc[t] = "idle"
    /\ args[t].action = "approve" /\ args[t].comment = NoComment
    /\ outcome[t].exc = "CommentRequired" /\ trace[t] = <<>>

\* contract_action('model') without a comment has sent its request
C21_PassesWithoutComment ==
  \E t \in Threads :
    /\ op[t] = "contract_action" /\ pc[t] = "idle"
    /\ args[t].action = "model" /\ args[t].comment = NoComment
    /\ outcome[t].kind = "returned"

\* ============================================================ with-block
InWith(t) == op[t] = "with"

\* the position of the first event of a kind in a trace, 0 for none
Position(tr, kind) ==
  IF \E i \in 1..Len(tr) : tr[i].ev = kind
  THEN CHOOSE i \in 1..Len(tr) : tr[i].ev = kind /\ \A j \in 1..(i - 1) : tr[j].ev # kind
  ELSE 0

\* --------------------------------------------------------------------- C22
\* C22: a with-block whose __enter__ returned has performed one login before
\* its body and, once it is left, one logout after its body, also when the
\* body raised; then token is None, and the block ends with the exception of
\* the body if it raised one and normally if it did not.
C22_ContextManager ==
  \A t \in Threads :
    (InWith(t) /\ Position(trace[t], "body") > 0) =>
       LET tr == trace[t]
           b == Position(tr, "body")
           x == Position(tr, "exit")
       IN  /\ Count(SubSeq(tr, 1, b), "login") = 1
           /\ pc[t] = "idle" =>
                 /\ x > b
                 /\ Len(tr) = x + 1 /\ tr[x + 1].ev = "logout"
                 /\ Count(SubSeq(tr, b, x), "login") = 0
                 /\ token = None
                 /\ IF tr[b].num = 1
                    THEN outcome[t].kind = "raised" /\ outcome[t].exc = "BodyError"
                    ELSE outcome[t].kind = "returned"

\* a with-block entered on a client that was logged in, whose body raised
C22_Witness ==
  \E t \in Threads :
    /\ InWith(t) /\ pc[t] = "idle"
    /\ trace[t][1].num # None
    /\ Position(trace[t], "body") > 0 /\ trace[t][Position(trace[t], "body")].num = 1
    /\ outcome[t].exc = "BodyError" /\ token = None

\* ============================================================== functions
Applied(fn) == given.fn = fn /\ value # <<>>

\* --------------------------------------------------------------------- C23
\* C23: every wrapper that a public call puts around a response whose body is
\* not JSON hands the caller an error outcome: no exception, has_errors true,
\* errors empty and result None.
C23_NotJsonIsAnErrorOutcome ==
  (Applied("wrap") /\ given.body = "not_json") =>
     /\ value[1].exc = ""
     /\ value[1].has_errors /\ value[1].errors = <<>> /\ value[1].result = PyNone

\* the same for the wrappers that read nothing from the result
C23_ResourceWrappersReturn ==
  (Applied("wrap") /\ given.body = "not_json" /\ given.class # "Collection") =>
     /\ value[1].exc = ""
     /\ value[1].has_errors /\ value[1].errors = <<>> /\ value[1].result = PyNone

\* --------------------------------------------------------------------- C24
\* C24: for every base_url the normalized base_url ends with the path segment
\* '/api' and has no trailing slash.
C24_RootedAtApi ==
  Applied("_format_base_url") =>
     /\ EndsWith(value[1], <<"/", "a", "p", "i">>)
     /\ ~EndsWith(value[1], <<"/">>)

\* the part that holds: the result ends with the characters 'api', so it has
\* no trailing slash
C24_EndsWithApi ==
  Applied("_format_base_url") => EndsWith(value[1], <<"a", "p", "i">>)

\* --------------------------------------------------------------------- C25
\* the reading of a $filter component that the claim describes: every '+' is a
\* space and every escaped quote is a quote
RECURSIVE Unescape(_)
Unescape(s) ==
  IF Len(s) = 0 THEN <<>>
  ELSE IF Len(s) >= 2 /\ s[1] = "\\" /\ s[2] = "'" THEN <<"'">> \o Unescape(SubSeq(s, 3, Len(s)))
  ELSE <<s[1]>> \o Unescape(Tail(s))

ParseBack(component) == Unescape(Replace(component, "+", <<" ">>))

\* $filter=field op 'value' as a parameter of the query
LogicalFilter(f, o, v) ==
  <<"$">> \o FilterKey \o f \o <<" ">> \o o \o <<" ", "'">> \o v \o <<"'">>

ByFields == Applied("parameter_string") /\ given.filter_string = <<>>

\* C25: the $filter component of parameter_string, read back with '+' as a
\* space and escaped quotes as quotes, is the logical filter field op 'value',
\* and two different values never produce the same component (so that what
\* delimits the value and what is inside it can be told apart).
C25_FilterRoundTrips ==
  ByFields =>
     /\ ParseBack(value[1]) =
           LogicalFilter(given.filter_field, given.filter_operator, given.filter_value)
     /\ \A v \in FilterValues :
           v # given.filter_value =>
             ParameterString(<<>>, given.filter_field, given.filter_operator, v) # value[1]

\* the part that holds: a value without '+' reads back as it was written
C25_PlainValuesRoundTrip ==
  (ByFields /\ \A i \in 1..Len(given.filter_value) : given.filter_value[i] # "+") =>
     ParseBack(value[1]) =
       LogicalFilter(given.filter_field, given.filter_operator, given.filter_value)

\* =========================================================== _send_request
\* the position of the last send before position i of a trace, 0 for none
LastSendBefore(tr, i) ==
  IF \E j \in 1..(i - 1) : tr[j].ev = "send"
  THEN CHOOSE j \in 1..(i - 1) : tr[j].ev = "send" /\ \A k \in (j + 1)..(i - 1) : tr[k].ev # "send"
  ELSE 0

\* --------------------------------------------------------------------- C26
\* C26: a call of _send_request begins by preparing and sending the request,
\* with no login or logout before the first send, whatever token and
\* token_expires are; every logout and login of the call comes after a send
\* of the same call whose response had a status in error_codes_to_retry.
C26_NoProactiveAuth ==
  \A t \in Threads : InSendRequest(t) =>
    LET tr == trace[t] IN
    /\ Len(tr) >= 1 => tr[1].ev = "prepare"
    /\ Len(tr) >= 2 => tr[2].ev = "send"
    /\ \A i \in 1..Len(tr) :
          tr[i].ev \in {"logout", "login"} =>
             /\ LastSendBefore(tr, i) > 0
             /\ tr[LastSendBefore(tr, i)].num = 1

\* a client that never logged in: the first send went out without a token and
\* without a login; its answer was retryable, and only then the call logged
\* out, logged in and sent again
C26_Witness ==
  \E t \in Threads :
    /\ Returned(t) /\ history.called = {"_send_request"}
    /\ trace[t][2].ev = "send" /\ trace[t][2].req.session = None /\ trace[t][2].num = 1
    /\ Retries(t) = 1 /\ Count(trace[t], "login") = 1 /\ token # None

\* --------------------------------------------------------------------- C27
\* C27: with several threads in _send_request on one client, every call
\* returns, after at most N + 1 sends and at most N re-authentications of its
\* own; stated on the calls that have ended: each of them has returned.
C27_EveryCallReturns ==
  (\A u \in Threads : InSendRequest(u)) =>
     \A t \in Threads :
       /\ Sends(t) <= number_of_retries + 1
       /\ Count(trace[t], "login") <= number_of_retries
       /\ pc[t] = "idle" => outcome[t].kind = "returned"

\* the part that holds: the bounds on the sends and on the re-authentications
\* of each call (a re-login that finds the token of another thread logs out
\* once more), and no call takes more than 2 + 8 N steps
C27_BoundedWork ==
  (\A u \in Threads : InSendRequest(u)) =>
     \A t \in Threads :
       /\ Sends(t) <= number_of_retries + 1
       /\ Count(trace[t], "login") <= number_of_retries
       /\ Count(trace[t], "logout") <= 2 * number_of_retries
       /\ Len(trace[t]) <= 2 + 8 * number_of_retries
       /\ pc[t] = "idle" => outcome[t].kind \in {"returned", "raised"}

\* --------------------------------------------------------------------- C28
\* the last prepare of the call of a thread
LastPrepare(t) ==
  LET p == Of(trace[t], "prepare") IN p[Len(p)]

\* the thread holds a request that it prepared with a token whose session was
\* open then and has been closed since, by the logout of another thread
Invalidated(t) ==
  /\ pc[t] \in {"send", "resend"}
  /\ LastPrepare(t).num = 1
  /\ prepped[t].session \notin active

\* C28: with concurrent callers of _send_request on one client, a request that
\* was prepared with a token whose session was open is never answered with a
\* status in error_codes_to_retry after another thread has logged that token
\* out, so the re-authentication of one caller starts none in another.
C28_NoCascade ==
  [][ \A t \in Threads :
        (OnlySendRequest /\ number_of_retries > 0 /\ Invalidated(t) /\ pc'[t] # pc[t]) =>
           ~InSeq(response'[t].status, ErrorCodes) ]_vars

\* --------------------------------------------------------------------- C29
\* C29: when login() has returned, either token, token_expires and the
\* X-AlliantSession header of the client and of its session all come from the
\* login response of this call, or token is None; a response with a token and
\* no expires field leaves no token that differs from the session header.
C29_LoginAllOrNothing ==
  \A t \in Threads :
    (InLogin(t) /\ Completed(t)) =>
       \/ token = None
       \/ LET k == Issued(t) IN
          /\ k # None
          /\ token = k
          /\ token_expires = ExpiresOf(k)
          /\ headers = k
          /\ session_headers = k

\* the part that holds: a login response without a token, and one with token
\* and expires, leave the client all-or-nothing
C29_AllOrNothingUnlessTokenOnly ==
  \A t \in Threads :
    (InLogin(t) /\ Completed(t) /\ outcome[t].response.body # "token_only") =>
       \/ token = None
       \/ /\ token = Issued(t) /\ token_expires = ExpiresOf(token)
          /\ headers = token /\ session_headers = token

\* --------------------------------------------------------------------- C30
\* the call of an action method has passed both checks
PassedChecks(t) ==
  /\ InAction(t) /\ pc[t] # "action_check"
  /\ args[t].action \in AllowList(args[t].resource)
  /\ ~(args[t].action \in CommentList(args[t].resource) /\ args[t].comment = NoComment)

\* PUT <resource url>/<action>/<guid>, with the comment as JSON body exactly
\* when the action needs one
ExpectedRequest(a) ==
  [method |-> "PUT",
   url |-> (IF a.resource = "adjustment" THEN "/data/adjustmentHeaders" ELSE "/data/contracts")
             \o "/" \o a.action \o "/" \o a.guid,
   params |-> "",
   json |-> IF a.action \in CommentList(a.resource) THEN a.comment ELSE ""]

\* C30: when both checks pass, adjustment_action and contract_action execute
\* one logical request through _send_request: a PUT to
\* <resource url>/<action>/<guid> whose JSON body is the comment if and only
\* if the action requires a comment; for every other action no body is sent,
\* also when the caller gave a comment.
C30_OneActionRequest ==
  \A t \in Threads : PassedChecks(t) =>
    LET tr == trace[t]
        e == ExpectedRequest(args[t])
    IN  /\ pc[t] = "action_send" => (req[t] = e /\ tr = <<>>)
        /\ pc[t] # "action_send" => Len(tr) >= 1
        /\ Len(tr) >= 1 => tr[1].ev = "prepare"
        /\ \A i \in 1..Len(tr) :
              tr[i].ev \in {"prepare", "send"} => SameRequest(tr[i].req, e)
        /\ Count(tr, "prepare") <= 1 + Retries(t)
        /\ Completed(t) => Sends(t) = 1 + Retries(t)

\* contract_action('model') with a comment: the request went out twice, both
\* times without a body
C30_Witness ==
  \E t \in Threads :
    /\ op[t] = "contract_action" /\ Completed(t)
    /\ args[t].action = "model" /\ args[t].comment = "comment"
    /\ Sends(t) = 2
    /\ \A i \in 1..Len(trace[t]) : trace[t][i].ev = "send" => trace[t][i].req.json = ""

\* adjustment_action('clearRequest') with its comment: the body is the comment
C30_WithBody ==
  \E t \in Threads :
    /\ op[t] = "adjustment_action" /\ Completed(t)
    /\ args[t].action = "clearRequest"
    /\ trace[t][2].ev = "send" /\ trace[t][2].req.json = "comment"

\* --------------------------------------------------------------------- C31
\* C31: patch_contract(guid, body) sends a PUT to the contracts resource,
\* <base>/data/contracts/<guid>, the URL that lookup_contract and
\* delete_contract use for the guid.
C31_PatchContractUrl ==
  (Applied("request") /\ given.method = "patch_contract") =>
     /\ value[1].method = "PUT"
     /\ value[1].url = "/data/contracts/" \o given.guid
     /\ value[1].url = ContractRequest("lookup_contract", given.guid).url
     /\ value[1].url = ContractRequest("delete_contract", given.guid).url

\* the part that holds: lookup_contract and delete_contract address
\* <base>/data/contracts/<guid>, and patch_contract sends a PUT
C31_LookupAndDeleteUrl ==
  Applied("request") =>
     IF given.method = "patch_contract" THEN value[1].method = "PUT"
     ELSE value[1].url = "/data/contracts/" \o given.guid

\* --------------------------------------------------------------------- C32
\* C32: for every collection response next_page_url is the nextPageUrl of the
\* result and previous_page_url its previousPageUrl; items, item_count and
\* total_item_count are items, itemCount and totalItemCount, and guids lists
\* the guid of each item in order.
C32_CollectionFields ==
  Applied("collection") =>
     LET r == given.result
         c == value[1]
     IN  /\ c.next_page_url = r.nextPageUrl
         /\ c.previous_page_url = r.previousPageUrl
         /\ c.items = r.items
         /\ c.item_count = r.itemCount
         /\ c.total_item_count = r.totalItemCount
         /\ Len(c.guids) = Len(r.items)
         /\ \A i \in 1..Len(r.items) : c.guids[i] = r.items[i].guid

\* the part that holds: the items, the two counts and the guids
C32_ItemsAndCounts ==
  Applied("collection") =>
     LET r == given.result
         c == value[1]
     IN  /\ c.items = r.items
         /\ c.item_count = r.itemCount
         /\ c.total_item_count = r.totalItemCount
         /\ Len(c.guids) = Len(r.items)
         /\ \A i \in 1..Len(r.items) : c.guids[i] = r.items[i].guid

\* --------------------------------------------------------------------- C33
InFilterLookup(t) == op[t] \in FilterLookups \cup GuidLookups

\* C33: a lookup by filter, and a lookup of a guid by filter, that has ended
\* has returned, after one GET on the collection of the resource, sent through
\* _send_request, whose $filter is <field> eq '<value>' with the spaces of the
\* value replaced by '+' and its quotes escaped.
C33_FilterLookupSendsOneGet ==
  \A t \in Threads :
    (InFilterLookup(t) /\ pc[t] = "idle") =>
       /\ outcome[t].kind = "returned"
       /\ Count(trace[t], "prepare") = 1
       /\ trace[t][1].req =
             Logical(FilterLookupRequest(args[t].method, args[t].verbosity,
                                         args[t].filter_field, args[t].filter_value))

\* what the lookups do: they raise AttributeError before any request exists
C33_FilterLookupRaises ==
  \A t \in Threads :
    (InFilterLookup(t) /\ pc[t] = "idle") =>
       /\ outcome[t].kind = "raised" /\ outcome[t].exc = "AttributeError"
       /\ trace[t] = <<>>

\* ============================================================== workflows
\* what a workflow has looked up and sent so far
Notes(t) == workflow[t].log

\* the status of the last lookup before position i of the notes, "" for none
RECURSIVE LastLookup(_, _)
LastLookup(log, i) ==
  IF i <= 1 THEN ""
  ELSE IF log[i - 1].ev = "lookup" THEN log[i - 1].what
  ELSE LastLookup(log, i - 1)

Noting(log, kind, what) == {i \in 1..Len(log) : log[i].ev = kind /\ log[i].what = what}
Kind(log, kind) == {i \in 1..Len(log) : log[i].ev = kind}

\* --------------------------------------------------------------------- C37
InDeletion(t) == op[t] = "process_contract_deletion"

\* C37: process_contract_deletion sends the DELETE only when the status it
\* looked up last is 'In Revision', 'In Setup' or 'Prior Revision'; a contract
\* found 'Active' is sent 'revise' and looked up again before that; the result
\* reports a successful deletion only when the DELETE was answered 200, and
\* 'not deleted' when no DELETE was sent.
C37_GuardedDeletion ==
  \A t \in Threads : InDeletion(t) =>
    LET log == Notes(t) IN
    /\ \A i \in Kind(log, "delete") :
          LastLookup(log, i) \in {"In Revision", "In Setup", "Prior Revision"}
    /\ \A i \in Kind(log, "delete") \cup (IF pc[t] = "idle" THEN {Len(log) + 1} ELSE {}) :
          log[1].what = "Active" =>
            (i >= 4 /\ log[2] = Noted("action", "revise") /\ log[3].ev = "lookup")
    /\ Len(log) >= 1 => log[1].ev = "lookup"
    /\ Cardinality(Kind(log, "delete")) <= 1
    /\ pc[t] = "idle" =>
          /\ outcome[t].kind = "returned"
          /\ outcome[t].response.body = "Successfully deleted" =>
                Noting(log, "delete", "200") # {}
          /\ Kind(log, "delete") = {} <=> outcome[t].response.body = "not deleted"

\* an Active contract: revised, found In Revision, deleted with status 200
C37_Witness ==
  \E t \in Threads :
    /\ InDeletion(t) /\ pc[t] = "idle"
    /\ Notes(t) = <<Noted("lookup", "Active"), Noted("action", "revise"),
                    Noted("lookup", "In Revision"), Noted("delete", "200")>>
    /\ outcome[t].response.body = "Successfully deleted"

\* --------------------------------------------------------------------- C34
InContractApproval(t) == op[t] = "complete_and_approve_contract"

\* C34: complete_and_approve_contract sends 'complete' only when the first
\* looked-up status is 'In Revision' or 'In Setup', sends 'approve' only when
\* the most recent looked-up status is 'Complete' and after any 'complete',
\* sends each action at most once, and sends no action to a contract whose
\* looked-up status is none of these.
C34_GuardedOrder ==
  \A t \in Threads : InContractApproval(t) =>
    LET log == Notes(t)
        completes == Noting(log, "action", "complete")
        approves == Noting(log, "action", "approve")
    IN  /\ Kind(log, "action") = completes \cup approves
        /\ \A i \in completes :
              /\ log[1].ev = "lookup"
              /\ log[1].what \in {"In Revision", "In Setup"}
        /\ \A i \in approves :
              /\ LastLookup(log, i) = "Complete"
              /\ \A j \in completes : j < i
        /\ Cardinality(completes) <= 1
        /\ Cardinality(approves) <= 1
        /\ (Len(log) >= 1 /\ log[1].what \notin {"In Revision", "In Setup", "Complete"}) =>
              Kind(log, "action") = {}

\* a contract In Setup: completed, found Complete, approved, found Approved
C34_Witness ==
  \E t \in Threads :
    /\ InContractApproval(t) /\ pc[t] = "idle" /\ outcome[t].kind = "returned"
    /\ Notes(t) = <<Noted("lookup", "In Setup"), Noted("action", "complete"),
                    Noted("lookup", "Complete"), Noted("action", "approve"),
                    Noted("lookup", "Approved")>>

\* --------------------------------------------------------------------- C35
InAdjustmentPosting(t) == op[t] = "complete_approve_post_adjustment"

\* the call of a lifecycle method with an approve message is over
LifecycleOver(t) ==
  /\ InContractApproval(t) \/ InAdjustmentPosting(t)
  /\ workflow[t].message # NoComment
  /\ pc[t] = "idle"
  /\ outcome[t].kind # "none"

\* C35: complete_and_approve_contract and complete_approve_post_adjustment
\* return, whatever the server answers and without raising, a response that
\* has the status of the resource as it was looked up last; also when the
\* server rejects the approve or the post.
C35_AlwaysReturnsStatus ==
  \A t \in Threads : LifecycleOver(t) =>
    /\ outcome[t].kind = "returned"
    /\ HasStatus(workflow[t].response)
    /\ StatusOf(outcome[t].response.body) = LastLookup(Notes(t), Len(Notes(t)) + 1)

\* the same for the calls in which every lookup found the resource
C35_RejectedActionReturnsStatus ==
  \A t \in Threads :
    (LifecycleOver(t) /\ \A i \in Kind(Notes(t), "lookup") : Notes(t)[i].what # PyNone) =>
      outcome[t].kind = "returned"

\* what does hold: a call that returns, returns the wrapper of its last lookup
C35_ReturnedIsLastLookup ==
  \A t \in Threads : (LifecycleOver(t) /\ outcome[t].kind = "returned") =>
    /\ HasStatus(workflow[t].response)
    /\ StatusOf(outcome[t].response.body) = LastLookup(Notes(t), Len(Notes(t)) + 1)
    /\ Notes(t)[Len(Notes(t))].ev = "lookup"

\* --------------------------------------------------------------------- C36
\* C36: complete_approve_post_adjustment sends at most one 'complete', one
\* 'approve' and one 'post', in that order, each only when the status looked
\* up last is exactly 'In Setup', 'Complete' and 'Approved'; for any other
\* status, a missing one included, the action is not sent and the call does
\* not raise.
C36_ExactGuards ==
  \A t \in Threads : InAdjustmentPosting(t) =>
    LET log == Notes(t)
        completes == Noting(log, "action", "complete")
        approves == Noting(log, "action", "approve")
        posts == Noting(log, "action", "post")
    IN  /\ Cardinality(completes) <= 1
        /\ Cardinality(approves) <= 1
        /\ Cardinality(posts) <= 1
        /\ \A i \in completes : \A j \in approves \cup posts : i < j
        /\ \A i \in approves : \A j \in posts : i < j
        /\ \A i \in completes : LastLookup(log, i) = "In Setup"
        /\ \A i \in approves : LastLookup(log, i) = "Complete"
        /\ \A i \in posts : LastLookup(log, i) = "Approved"
        /\ (/\ pc[t] = "idle" /\ workflow[t].message # NoComment
            /\ Len(log) = 1 /\ HasResult(workflow[t].response.body)) =>
              outcome[t].kind = "returned"

\* what does hold: the order, the counts and the guards of approve and post
C36_OrderAndCounts ==
  \A t \in Threads : InAdjustmentPosting(t) =>
    LET log == Notes(t)
        completes == Noting(log, "action", "complete")
        approves == Noting(log, "action", "approve")
        posts == Noting(log, "action", "post")
    IN  /\ Cardinality(completes) <= 1
        /\ Cardinality(approves) <= 1
        /\ Cardinality(posts) <= 1
        /\ \A i \in completes : \A j \in approves \cup posts : i < j
        /\ \A i \in approves : \A j \in posts : i < j
        /\ \A i \in completes : LastLookup(log, i) \in {"In Setup", "Setup"}
        /\ \A i \in approves : LastLookup(log, i) = "Complete"
        /\ \A i \in posts : LastLookup(log, i) = "Approved"

\* --------------------------------------------------------------------- C38
\* the login requests that a thread has sent in its call
Logins(tr) == Of(tr, "login")

\* C38: no operation of the client changes base_url, user_id, password,
\* system_layer_key or application_layer, and every login request of the
\* client, those of the retry path included, carries the same four login
\* parameters: the ones the client was constructed with.
C38_IdentityFrame ==
  [][/\ base_url' = base_url
     /\ user_id' = user_id
     /\ password' = password
     /\ system_layer_key' = system_layer_key
     /\ application_layer' = application_layer
     /\ \A t \in Threads : \A i \in 1..Len(Logins(trace'[t])) :
           /\ Logins(trace'[t])[i].req.url = "/security/login"
           /\ Logins(trace'[t])[i].req.params =
                LoginParams(user_id, password, system_layer_key, application_layer)]_vars

\* a _send_request of the second user that has logged in again twice
C38_Witness ==
  \E t \in Threads :
    /\ InSendRequest(t)
    /\ user_id = "u2" /\ password = "p2" /\ application_layer = "a2"
    /\ base_url = <<"h", "/", "a", "p", "i">>
    /\ Len(Logins(trace[t])) >= 2
    /\ \A i \in 1..Len(Logins(trace[t])) :
          Logins(trace[t])[i].req.params =
            "userId=u2&password=p2&systemLayer=s1&applicationLayer=a2"

====
